---- MODULE Spec2Model ----
(***************************************************************************)
(* State-machine model of the interaction orchestration core of the       *)
(* AR-glasses backend: the ESP32 frame ingest thread, the bounded          *)
(* recognition queue, the face recognition worker thread (recognition,     *)
(* running averages, FPS-adaptive switch detection, store writes) and the  *)
(* fan-out of person switches to the connected WebSocket clients, and the  *)
(* conversation orchestrator of each connection: its ConversationState,    *)
(* the transcript turns of its speech thread, the person-switch handler    *)
(* and the background summary threads.                                     *)
(*                                                                         *)
(* Conventions.                                                            *)
(*   - Optional[str] person ids are integers; None is NoPerson (0).        *)
(*   - time.time() is an integer number of ticks, TicksPerSecond to the    *)
(*     second; an FPS estimate is the exact rational n/d.                  *)
(*   - A face embedding is an integer vector; a running average is kept    *)
(*     as [sum, n], standing for the vector sum/n (cosine similarity does  *)
(*     not depend on the positive divisor n).                              *)
(***************************************************************************)
EXTENDS Naturals, Integers, Sequences, FiniteSets, TLC

\* ------------------------------------------------------------------ bounds
\* Payloads the frame socket delivers in one run.
MaxFrames == 8
\* Times the face in front of the camera changes in one run of the pipeline.
MaxChanges == 1
\* Frames fed to the switch detector beyond one full observation window, and
\* times the face changes while they are fed.
ExtraFrames == 9
FeedChanges == 2
\* Grid of the FPS values the threshold functions are evaluated on (1/FpsGrid).
FpsGrid == 20
\* Final transcripts the speech threads deliver in one run.
MaxTurns == 2
\* Frames the worker is given, and times the face changes, while a connection
\* talks.
TalkFrames == 8
TalkChanges == 1
\* The same while summaries may hang (three switches take nine frames).
HangFrames == 9
HangChanges == 2
\* Most control messages a connection sends.
MaxControl == 2
\* Observations folded into a stored row by an earlier session.
EarlierCount == 12

\* ------------------------------------------------------- program constants
NoPerson == 0
NoFace == 0
QueueMaxSize == 2
max_consecutive_errors == 10
MaxFrameLen == 5 * 1024 * 1024
HeaderLen == 8
fps_window_size == 30
base_person_threshold == 5
base_no_person_threshold == 7
CacheTtlSeconds == 5
TicksPerSecond == 60
UnnamedBase == 100
PoolMaxConn == 5

VARIABLES
    \* ---- frame ingest thread (_process_esp32_frames)
    ingest_pc,              \* "read" | "queue" | "stopped"
    ingest_frame,           \* frame_data held between the read and the put
    consecutive_errors,
    queue_dropped,
    frames_read,            \* payloads read so far (numbers the frames)
    camera_face,            \* face the camera showed in the last payload
    camera_changes,
    scene,                  \* faces the camera can show in this run
    \* ---- recognition queue (queue.Queue(maxsize=2))
    face_recognition_queue,
    \* ---- recognition worker thread (_process_face_recognition_worker)
    worker_pc,              \* "get" | "process" | "recap" | "dispatch"
    worker_frame,
    worker_switch,          \* [person_id, from, seq, recap, llm_in_time] of the switch in hand
    worker_targets,         \* list(self.connections.items()) still to update
    \* ---- FacialRecognitionService
    frame_history,
    current_person_id,
    frame_timestamps,
    current_fps,            \* [n, d]: n/d frames per second
    history_size,
    person_threshold,       \* thresholds as last evaluated (0: not yet)
    no_person_threshold,
    embedding_averages,     \* person_id -> [sum, n, count]
    face_database_cache,    \* <<>> when None, else <<rows>> (a one-element tuple)
    face_database_cache_time,
    uuid_next,
    clock,
    frame_gap,              \* ticks between two processed frames
    frames_processed,
    \* ---- persistent store
    store_up,
    faces,                  \* person_id -> [embedding, count, recap]
    \* ---- WebSocket server / event loop
    connections,            \* the dict, in insertion order: <<[id, client], ...>>
    client_state,           \* client -> "new" | "open" | "closed"
    client_conn_id,         \* client -> its connection_id
    client_mailbox,         \* client -> per-connection person_switch_queue
    person_switch_queue,    \* server-wide queue filled by the worker
    fanout_pc,              \* "get" | "send"
    fanout_item,
    fanout_targets,
    orch_previous_person_id,\* client -> orchestrator._previous_person_id
    conv_current_person_id, \* client -> conversation_state.current_person_id
    \* ---- ConversationOrchestrator / ConversationState of each connection
    orch_database,          \* client -> its orchestrator has a database_manager
    conv_messages,          \* client -> conversation_state.messages
    conv_tool_calls,        \* client -> conversation_state.tool_calls
    conv_conversation_id,   \* client -> conversation_state.conversation_id
    conversation_uuid_next, \* uuid4 values drawn for conversations so far
    turn_pc,                \* client -> "idle" | "agent" (its transcript thread)
    turn,                   \* client -> [no, person_id, epoch] of the turn in hand
    turns_started,
    summary_tasks,          \* background summary threads, in start order
    summaries,              \* the summaries table, in insertion order
    notification_callback,  \* tools.notification._notification_callback (a client)
    notification_queue,     \* client -> per-connection notification_queue
    socket_stalled,         \* client -> its peer has stopped reading
    orch_handled,           \* client -> seq of the last switch its handler took
    notifications_sent,     \* client -> notification frames written to its socket
    \* ---- DatabaseManager of each connection
    db_pool,                \* client -> [open, gen, used] of its connection_pool
    db_ops,                 \* thread -> [pc, gen, failed] of the operation it is in
    \* ---- control messages
    control_log,            \* client -> the control messages handled, with the answers
    \* ---- history (observation only; no action reads these)
    sent,                   \* client -> switch frames written to its socket
    event_log,              \* store writes, commits and mailbox puts, in order
    switch_seq              \* number of switches committed so far

ingestVars == <<ingest_pc, ingest_frame, consecutive_errors, queue_dropped,
                frames_read, camera_face, camera_changes, scene>>
workerVars == <<worker_pc, worker_frame, worker_switch, worker_targets>>
detectorVars == <<frame_history, current_person_id, frame_timestamps, current_fps,
                  history_size, person_threshold, no_person_threshold, clock,
                  frame_gap, frames_processed>>
galleryVars == <<embedding_averages, face_database_cache, face_database_cache_time,
                 uuid_next>>
storeVars == <<store_up, faces>>
clientVars == <<connections, client_state, client_conn_id, client_mailbox,
                orch_previous_person_id, conv_current_person_id>>
fanoutVars == <<person_switch_queue, fanout_pc, fanout_item, fanout_targets>>
conversationVars == <<orch_database, conv_messages, conv_tool_calls,
                      conv_conversation_id, conversation_uuid_next, turn_pc, turn,
                      turns_started, summary_tasks, summaries, notification_callback,
                      notification_queue, socket_stalled, orch_handled,
                      notifications_sent>>
poolVars == <<db_pool, db_ops>>
controlVars == <<control_log>>
historyVars == <<sent, event_log, switch_seq>>

vars == <<ingestVars, face_recognition_queue, workerVars, detectorVars, galleryVars,
          storeVars, clientVars, conversationVars, poolVars, controlVars, fanoutVars,
          historyVars>>

\* ------------------------------------------------------------ small helpers
Max(a, b) == IF a >= b THEN a ELSE b
Min(a, b) == IF a <= b THEN a ELSE b

RECURSIVE CountOf(_, _)
CountOf(x, s) == IF s = <<>> THEN 0
                 ELSE (IF Head(s) = x THEN 1 ELSE 0) + CountOf(x, Tail(s))

\* ================================================================ FRAME INGEST
\* What one pass of the read loop finds on the socket: an exception of the
\* header read, the header bytes, the magic, the big-endian length, the
\* payload read, and whether OpenCV can decode the payload.
WireReads ==
    [raises : {"none", "timeout", "socket"},
     header_len : {0, HeaderLen},
     magic_ok : BOOLEAN,
     frame_len : {0, 1024, MaxFrameLen + 1},
     payload_short : BOOLEAN,
     decodable : BOOLEAN]

\* The checks of the loop body that end the pass with an error, in the code's order.
FrameReadFails(rd) ==
    \/ rd.raises # "none"
    \/ rd.header_len < HeaderLen
    \/ ~rd.magic_ok
    \/ rd.frame_len <= 0
    \/ rd.frame_len > MaxFrameLen
    \/ rd.payload_short

\* A pass stops at its first failing check and never looks at what would have
\* followed: the fields behind the first failure are left at their good values.
ReadInputs ==
    {rd \in WireReads :
        /\ rd.raises # "none" => rd.header_len = HeaderLen
        /\ (rd.raises # "none" \/ rd.header_len < HeaderLen) => rd.magic_ok
        /\ (rd.raises # "none" \/ rd.header_len < HeaderLen \/ ~rd.magic_ok)
               => rd.frame_len = 1024
        /\ (rd.raises # "none" \/ rd.header_len < HeaderLen \/ ~rd.magic_ok
               \/ rd.frame_len # 1024) => ~rd.payload_short
        /\ FrameReadFails(rd) => rd.decodable}

\* Variants of the two operators below, for comparison: the limit taken as
\* "more than ten", a put that discards the oldest frame, a put without a bound.
ErrorLimitExceeded(errors) == errors > max_consecutive_errors

\* consecutive_errors += 1; break when it reaches max_consecutive_errors, else continue.
ErrorLimitReached(errors) == errors >= max_consecutive_errors

QueuePutDropOldest(q, item) ==
    IF Len(q) >= QueueMaxSize
    THEN [queue |-> Append(Tail(q), item), full |-> FALSE]
    ELSE [queue |-> Append(q, item), full |-> FALSE]

QueuePutUnbounded(q, item) == [queue |-> Append(q, item), full |-> FALSE]

\* queue.Queue(maxsize=2).put_nowait(item): raises queue.Full when the queue is full.
QueuePutNowait(q, item) ==
    IF Len(q) >= QueueMaxSize
    THEN [queue |-> q, full |-> TRUE]
    ELSE [queue |-> Append(q, item), full |-> FALSE]

\* A pass of the loop that ends in one of the framing/read errors.
IngestReadError(rd) ==
    /\ ingest_pc = "read"
    /\ FrameReadFails(rd)
    /\ consecutive_errors' = consecutive_errors + 1
    /\ ingest_pc' = IF ErrorLimitReached(consecutive_errors + 1) THEN "stopped" ELSE "read"
    /\ UNCHANGED <<ingest_frame, queue_dropped, frames_read, camera_face,
                   camera_changes, scene>>
    /\ UNCHANGED <<face_recognition_queue, workerVars, detectorVars, galleryVars,
                   storeVars, clientVars, conversationVars, poolVars, controlVars,
                   fanoutVars, historyVars>>

\* A pass that reads a whole payload: the error counter is reset, the payload
\* decoded and re-encoded; an undecodable payload is skipped without an error.
IngestReadFrame(rd, face) ==
    /\ ingest_pc = "read"
    /\ ~FrameReadFails(rd)
    /\ frames_read < MaxFrames
    /\ face \in scene
    /\ face = camera_face \/ camera_changes < MaxChanges
    /\ consecutive_errors' = 0
    /\ frames_read' = frames_read + 1
    /\ camera_face' = face
    /\ camera_changes' = IF face = camera_face THEN camera_changes ELSE camera_changes + 1
    /\ IF rd.decodable
       THEN /\ ingest_pc' = "queue"
            /\ ingest_frame' = [seq |-> frames_read + 1, face |-> face]
       ELSE /\ ingest_pc' = "read"
            /\ UNCHANGED ingest_frame
    /\ UNCHANGED <<queue_dropped, scene>>
    /\ UNCHANGED <<face_recognition_queue, workerVars, detectorVars, galleryVars,
                   storeVars, clientVars, conversationVars, poolVars, controlVars,
                   fanoutVars, historyVars>>

\* put_nowait of the frame in hand; queue.Full only sets queue_dropped.
IngestEnqueue ==
    /\ ingest_pc = "queue"
    /\ LET put == QueuePutNowait(face_recognition_queue, ingest_frame)
       IN /\ face_recognition_queue' = put.queue
          /\ queue_dropped' = put.full
    /\ ingest_pc' = "read"
    /\ UNCHANGED <<ingest_frame, consecutive_errors, frames_read, camera_face,
                   camera_changes, scene>>
    /\ UNCHANGED <<workerVars, detectorVars, galleryVars, storeVars, clientVars,
                   conversationVars, poolVars, controlVars,
                   fanoutVars, historyVars>>

\* ============================================================= SWITCH DETECTOR
DefaultFps == [n |-> 10, d |-> 1]

\* _update_fps: the timestamp ring after appending `now`.
UpdateTimestamps(ts, now) ==
    LET appended == Append(ts, now)
    IN IF Len(appended) > fps_window_size THEN Tail(appended) ELSE appended

\* _update_fps: (len - 1) / time_span over the ring, 10.0 when it cannot be computed.
EstimateFps(ts) ==
    IF Len(ts) >= 2
    THEN LET time_span == ts[Len(ts)] - ts[1]
         IN IF time_span > 0
            THEN [n |-> (Len(ts) - 1) * TicksPerSecond, d |-> time_span]
            ELSE DefaultFps
    ELSE DefaultFps

\* Variant for comparison: a window size without the floor of 5.
HistorySizeUnfloored(fps) == Min(30, fps.n \div fps.d)

\* _update_fps: history_size = max(5, min(30, int(current_fps))).
HistorySizeFor(fps) == Max(5, Min(30, fps.n \div fps.d))

\* _get_person_threshold: max(3, min(int(5 * (fps / 10.0)), history_size - 1)).
GetPersonThreshold(fps, hs) ==
    Max(3, Min((base_person_threshold * fps.n) \div (10 * fps.d), hs - 1))

\* Variants for comparison: an absence threshold built on a base of 6, and one
\* with the floor of the person threshold.
GetNoPersonThresholdBaseSix(fps, hs) ==
    Max(5, Min((6 * fps.n) \div (10 * fps.d), hs - 1))

GetNoPersonThresholdFloorThree(fps, hs) ==
    Max(3, Min((base_no_person_threshold * fps.n) \div (10 * fps.d), hs - 1))

\* _get_no_person_threshold: max(5, min(int(7 * (fps / 10.0)), history_size - 1)).
GetNoPersonThreshold(fps, hs) ==
    Max(5, Min((base_no_person_threshold * fps.n) \div (10 * fps.d), hs - 1))

\* update_frame_history: append, then drop one entry when longer than history_size.
UpdateFrameHistory(history, person_id, hs) ==
    LET appended == Append(history, person_id)
    IN IF Len(appended) > hs THEN Tail(appended) ELSE appended

\* Variants for comparison: absence decided on two missed frames, and a person
\* decided only on more than the threshold.
ShouldSwitchOnTwoMisses(history, fps, hs) == CountOf(NoPerson, history) >= 2

ShouldSwitchAboveThreshold(history, fps, hs, new_person_id) ==
    IF new_person_id = NoPerson
    THEN FALSE
    ELSE CountOf(new_person_id, history) > GetPersonThreshold(fps, hs)

ShouldSwitchToNoPerson(history, fps, hs) ==
    LET threshold == GetNoPersonThreshold(fps, hs)
    IN IF Len(history) < threshold
       THEN FALSE
       ELSE CountOf(NoPerson, history) >= threshold

ShouldSwitchToDifferentPerson(history, fps, hs, new_person_id) ==
    IF new_person_id = NoPerson
    THEN FALSE
    ELSE LET threshold == GetPersonThreshold(fps, hs)
         IN IF Len(history) < threshold
            THEN FALSE
            ELSE CountOf(new_person_id, history) >= threshold

\* Variant for comparison: a detector that never decides on absence.
SwitchDecisionWithoutAbsence(current, person_id, history, fps, hs) ==
    IF person_id # NoPerson /\ current # person_id
       /\ ShouldSwitchToDifferentPerson(history, fps, hs, person_id)
    THEN [switch |-> TRUE, to |-> person_id]
    ELSE [switch |-> FALSE, to |-> current]

\* The switch decision of process_frame after the history update: the person
\* the detector switches to, or "none" when it keeps its current person.
\* (Case 1: person -> no person; case 2: -> a different person, which also
\* covers no person -> person; the third branch of the code is unreachable.)
SwitchDecision(current, person_id, history, fps, hs) ==
    IF current # NoPerson /\ person_id = NoPerson
    THEN IF ShouldSwitchToNoPerson(history, fps, hs)
         THEN [switch |-> TRUE, to |-> NoPerson]
         ELSE [switch |-> FALSE, to |-> current]
    ELSE IF person_id # NoPerson /\ current # person_id
              /\ ShouldSwitchToDifferentPerson(history, fps, hs, person_id)
         THEN [switch |-> TRUE, to |-> person_id]
         ELSE [switch |-> FALSE, to |-> current]

\* ======================================================== STORE (faces table)
NullEmbedding == [sum |-> <<0, 0>>, n |-> 0]
NullCount == 0 - 1
NullRecap == "NULL"

\* Parameters of DatabaseManager.create_or_update_face.
CreateOrUpdateFaceParams == {"person_id", "embedding", "count", "socials", "recap"}
\* Keyword arguments of the two calls the recognition service makes.
NewPersonCallKwargs == {"person_id", "embedding", "count", "person_name"}
SaveAverageCallKwargs == {"person_id", "embedding", "count"}

\* A Python call binds only when every keyword names a parameter (else TypeError).
CallBinds(kwargs, params) == kwargs \subseteq params

Coalesce(new, old, null) == IF new # null THEN new ELSE old

\* Variant for comparison: an upsert that overwrites every column with the
\* value of the call, NULL included.
CreateOrUpdateFaceOverwriting(tbl, person_id, embedding, count, recap) ==
    [p \in DOMAIN tbl \cup {person_id} |->
        IF p = person_id
        THEN [embedding |-> embedding, count |-> count, recap |-> recap]
        ELSE tbl[p]]

\* INSERT ... ON CONFLICT (person_id) DO UPDATE SET col = COALESCE(EXCLUDED.col, faces.col).
CreateOrUpdateFace(tbl, person_id, embedding, count, recap) ==
    LET row == IF person_id \in DOMAIN tbl
               THEN [embedding |-> Coalesce(embedding, tbl[person_id].embedding, NullEmbedding),
                     count |-> Coalesce(count, tbl[person_id].count, NullCount),
                     recap |-> Coalesce(recap, tbl[person_id].recap, NullRecap)]
               ELSE [embedding |-> embedding, count |-> count, recap |-> recap]
    IN [p \in DOMAIN tbl \cup {person_id} |-> IF p = person_id THEN row ELSE tbl[p]]

\* ---- DatabaseManager.connection_pool: ThreadedConnectionPool(minconn=1, maxconn=5).
\* `open` says the attribute holds a pool, `gen` counts the pools closed so
\* far (a connection taken from an earlier pool is closed), `used` the
\* connections checked out of the present pool.
NoPool == [open |-> FALSE, gen |-> 0, used |-> 0]

\* _initialize_pool: a new pool, when the store can be reached.
InitializePool(pool, up) == [open |-> up, gen |-> pool.gen, used |-> 0]

\* _get_connection: the pool is built again when the attribute is None, and
\* getconn hands out a connection unless maxconn are checked out. The result
\* is [ok, pool]: ok is FALSE when the call raises.
GetConnection(pool, up) ==
    LET q == IF pool.open THEN pool ELSE InitializePool(pool, up)
    IN IF ~q.open THEN [ok |-> FALSE, pool |-> pool]
       ELSE IF q.used >= PoolMaxConn THEN [ok |-> FALSE, pool |-> q]
       ELSE [ok |-> TRUE, pool |-> [q EXCEPT !.used = @ + 1]]

\* Variant: the connection is kept when the operation failed.
ReturnConnectionOnSuccess(pool, gen, failed) ==
    IF pool.open /\ gen = pool.gen /\ ~failed
    THEN [pool EXCEPT !.used = @ - 1] ELSE pool

\* _return_connection in the finally block of an operation: putconn on the
\* present pool (which knows only its own connections), nothing without one.
ReturnConnection(pool, gen, failed) ==
    IF pool.open /\ gen = pool.gen THEN [pool EXCEPT !.used = @ - 1] ELSE pool

\* DatabaseManager.close: closeall() closes every connection of the pool,
\* those checked out included, and the attribute is set to None.
ClosePool(pool) ==
    IF pool.open THEN [open |-> FALSE, gen |-> pool.gen + 1, used |-> 0] ELSE pool

\* A statement on a connection succeeds when the store is up and the pool
\* the connection came from has not been closed.
ConnectionUsable(pool, gen, up) == up /\ pool.open /\ gen = pool.gen

\* ================================================================ RECOGNITION
\* The embedding InsightFace yields for a face (its raw value, divisor 1).
FaceVector(face) ==
    CASE face = 1 -> <<1, 0>>
      [] face = 2 -> <<0, 1>>
      [] OTHER    -> <<0 - 1, 0>>

Embedding(face) == [sum |-> FaceVector(face), n |-> 1]

Dot(a, b) == a[1] * b[1] + a[2] * b[2]

\* Cosine similarity of two embeddings as num / sqrt(den2).
Similarity(e, db) ==
    [num |-> Dot(e.sum, db.sum), den2 |-> Dot(e.sum, e.sum) * Dot(db.sum, db.sum)]

\* best_score = -1.0
InitialBestScore == [num |-> 0 - 1, den2 |-> 1]

\* score > best_score
ScoreGreater(a, b) ==
    IF a.num >= 0 /\ b.num < 0 THEN TRUE
    ELSE IF a.num < 0 /\ b.num >= 0 THEN FALSE
    ELSE IF a.num >= 0 THEN a.num * a.num * b.den2 > b.num * b.num * a.den2
    ELSE a.num * a.num * b.den2 < b.num * b.num * a.den2

\* best_score >= MATCH_THRESHOLD, MATCH_THRESHOLD = 0.2 = 1/5
AtLeastMatchThreshold(s) == s.num > 0 /\ 25 * s.num * s.num >= s.den2

\* find_best_match: one pass over the rows in the dict's order, keeping the
\* first row of strictly greatest score; zero-norm rows are skipped.
RECURSIVE FindBestMatchFrom(_, _, _)
FindBestMatchFrom(e, rows, best) ==
    IF rows = <<>> THEN best
    ELSE LET row == Head(rows)
             score == Similarity(e, row.embedding)
         IN IF Dot(row.embedding.sum, row.embedding.sum) = 0
            THEN FindBestMatchFrom(e, Tail(rows), best)
            ELSE IF ScoreGreater(score, best.score)
                 THEN FindBestMatchFrom(e, Tail(rows),
                                        [id |-> row.person_id, score |-> score])
                 ELSE FindBestMatchFrom(e, Tail(rows), best)

FindBestMatch(e, rows) ==
    IF rows = <<>> \/ Dot(e.sum, e.sum) = 0
    THEN [id |-> NoPerson, score |-> InitialBestScore]
    ELSE FindBestMatchFrom(e, rows, [id |-> NoPerson, score |-> InitialBestScore])

\* The orders in which SELECT (no ORDER BY) can return the rows holding an embedding.
RECURSIVE RowOrdersOf(_, _)
RowOrdersOf(tbl, ids) ==
    IF ids = {} THEN {<<>>}
    ELSE UNION {{<<[person_id |-> p, embedding |-> tbl[p].embedding]>> \o rest :
                    rest \in RowOrdersOf(tbl, ids \ {p})} : p \in ids}

RowOrders(tbl) ==
    RowOrdersOf(tbl, {p \in DOMAIN tbl : tbl[p].embedding # NullEmbedding})

\* load_face_database_from_db(force_reload=False) at time `now`, the store
\* returning `rows`: the database used for this frame and the cache afterwards.
LoadFaceDatabase(cache, cache_time, now, up, rows) ==
    IF cache # <<>> /\ now - cache_time < CacheTtlSeconds * TicksPerSecond
    THEN [database |-> cache[1], cache |-> cache, cache_time |-> cache_time]
    ELSE IF ~up
         THEN [database |-> <<>>, cache |-> cache, cache_time |-> cache_time]
         ELSE [database |-> rows, cache |-> <<rows>>, cache_time |-> now]

\* Running average of the match path: (avg * count + e) / (count + 1), or (e, 1)
\* the first time the person is matched in this session.
FoldEmbedding(averages, person_id, e) ==
    LET entry == IF person_id \in DOMAIN averages
                 THEN [sum |-> <<averages[person_id].sum[1] + e.sum[1],
                                 averages[person_id].sum[2] + e.sum[2]>>,
                       n |-> averages[person_id].count + 1,
                       count |-> averages[person_id].count + 1]
                 ELSE [sum |-> e.sum, n |-> 1, count |-> 1]
    IN [p \in DOMAIN averages \cup {person_id} |->
            IF p = person_id THEN entry ELSE averages[p]]

\* f"Unnamed_{uuid.uuid4().hex[:8]}": the k-th identifier generated.
UnnamedId(k) == UnnamedBase + k

\* recognize_person for a frame showing `face`, at time `now`, the store
\* returning `rows` if it is read. Yields the person id of the frame and the
\* service's and the store's state afterwards.
RecognizePerson(face, now, rows) ==
    LET unchanged == [person_id |-> NoPerson, averages |-> embedding_averages,
                      cache |-> face_database_cache,
                      cache_time |-> face_database_cache_time,
                      uuid |-> uuid_next, tbl |-> faces, created |-> FALSE]
    IN IF face = NoFace
       THEN unchanged
       ELSE
         LET e == Embedding(face)
             load == LoadFaceDatabase(face_database_cache, face_database_cache_time,
                                      now, store_up, rows)
             best == FindBestMatch(e, load.database)
         IN IF best.id # NoPerson /\ AtLeastMatchThreshold(best.score)
            THEN [unchanged EXCEPT !.person_id = best.id,
                                   !.averages = FoldEmbedding(embedding_averages, best.id, e),
                                   !.cache = load.cache,
                                   !.cache_time = load.cache_time]
            ELSE \* no match: a new person; the cache is invalidated before the write
              LET new_person_id == UnnamedId(uuid_next + 1)
                  written == CallBinds(NewPersonCallKwargs, CreateOrUpdateFaceParams)
                             /\ store_up
              IN [person_id |-> new_person_id,
                  averages |-> IF written
                               THEN [p \in DOMAIN embedding_averages \cup {new_person_id} |->
                                       IF p = new_person_id
                                       THEN [sum |-> e.sum, n |-> 1, count |-> 1]
                                       ELSE embedding_averages[p]]
                               ELSE embedding_averages,
                  cache |-> <<>>,
                  cache_time |-> load.cache_time,
                  uuid |-> uuid_next + 1,
                  tbl |-> IF written
                          THEN CreateOrUpdateFace(faces, new_person_id, e, 1, NullRecap)
                          ELSE faces,
                  created |-> written]

\* _save_averaged_embedding: the faces table after the call, and whether it wrote.
SaveAveragedEmbedding(person_id, averages, tbl, up) ==
    IF person_id = NoPerson \/ person_id \notin DOMAIN averages
    THEN [tbl |-> tbl, wrote |-> FALSE]
    ELSE IF CallBinds(SaveAverageCallKwargs, CreateOrUpdateFaceParams) /\ up
         THEN [tbl |-> CreateOrUpdateFace(tbl, person_id,
                            [sum |-> averages[person_id].sum, n |-> averages[person_id].n],
                            averages[person_id].count, NullRecap),
               wrote |-> TRUE]
         ELSE [tbl |-> tbl, wrote |-> FALSE]

\* ============================================================== process_frame
\* A variant for comparison: the averaged embedding written on every frame.
SavesOnEveryFrame(decision, current) == current # NoPerson

\* _save_averaged_embedding is called only in the two switch branches, and
\* only when the detector switches away from a person.
SavesOnSwitch(decision, current) == decision.switch /\ current # NoPerson

\* process_frame on a frame showing `face`, called at time `now`: recognition,
\* history update, switch decision, and on a switch away from a person the
\* write of that person's averaged embedding before current_person_id changes.
ProcessFrameResult(face, now, rows) ==
    LET rec == RecognizePerson(face, now, rows)
        ts == UpdateTimestamps(frame_timestamps, now)
        fps == EstimateFps(ts)
        hs == HistorySizeFor(fps)
        history == UpdateFrameHistory(frame_history, rec.person_id, hs)
        decision == SwitchDecision(current_person_id, rec.person_id, history, fps, hs)
        save == IF SavesOnSwitch(decision, current_person_id)
                THEN SaveAveragedEmbedding(current_person_id, rec.averages, rec.tbl, store_up)
                ELSE [tbl |-> rec.tbl, wrote |-> FALSE]
    IN [person_id |-> decision.to,
        switch |-> decision.switch,
        observed |-> rec.person_id,
        created |-> rec.created,
        wrote |-> save.wrote,
        timestamps |-> ts, fps |-> fps, history_size |-> hs, history |-> history,
        averages |-> rec.averages, cache |-> rec.cache, cache_time |-> rec.cache_time,
        uuid |-> rec.uuid, tbl |-> save.tbl]

\* What process_frame adds to the event log, in the order the code acts.
ProcessFrameLog(r, from) ==
    (IF r.wrote THEN <<[type |-> "fold", person |-> from, seq |-> switch_seq + 1]>>
     ELSE <<>>)
    \o (IF r.switch
        THEN <<[type |-> "commit", person |-> r.person_id, seq |-> switch_seq + 1]>>
        ELSE <<>>)

\* Variant for comparison: a switch that starts the window afresh and forgets
\* the running averages of the session.
ApplyProcessFrameClearing(r) ==
    /\ clock' = clock + frame_gap
    /\ frames_processed' = frames_processed + 1
    /\ frame_timestamps' = r.timestamps
    /\ current_fps' = r.fps
    /\ history_size' = r.history_size
    /\ person_threshold' = GetPersonThreshold(r.fps, r.history_size)
    /\ no_person_threshold' = GetNoPersonThreshold(r.fps, r.history_size)
    /\ frame_history' = IF r.switch THEN <<>> ELSE r.history
    /\ current_person_id' = r.person_id
    /\ embedding_averages' = IF r.switch THEN <<>> ELSE r.averages
    /\ face_database_cache' = r.cache
    /\ face_database_cache_time' = r.cache_time
    /\ uuid_next' = r.uuid
    /\ faces' = r.tbl
    /\ event_log' = event_log \o ProcessFrameLog(r, current_person_id)
    /\ switch_seq' = IF r.switch THEN switch_seq + 1 ELSE switch_seq
    /\ UNCHANGED <<frame_gap, store_up>>

\* The service's and the store's variables after process_frame returned r.
ApplyProcessFrame(r) ==
    /\ clock' = clock + frame_gap
    /\ frames_processed' = frames_processed + 1
    /\ frame_timestamps' = r.timestamps
    /\ current_fps' = r.fps
    /\ history_size' = r.history_size
    /\ person_threshold' = GetPersonThreshold(r.fps, r.history_size)
    /\ no_person_threshold' = GetNoPersonThreshold(r.fps, r.history_size)
    /\ frame_history' = r.history
    /\ current_person_id' = r.person_id
    /\ embedding_averages' = r.averages
    /\ face_database_cache' = r.cache
    /\ face_database_cache_time' = r.cache_time
    /\ uuid_next' = r.uuid
    /\ faces' = r.tbl
    /\ event_log' = event_log \o ProcessFrameLog(r, current_person_id)
    /\ switch_seq' = IF r.switch THEN switch_seq + 1 ELSE switch_seq
    /\ UNCHANGED <<frame_gap, store_up>>

\* ================================================= CONVERSATION ORCHESTRATOR
NoConversation == 0
NoTurn == [no |-> 0, person_id |-> NoPerson, epoch |-> 0, outcome |-> "none",
           messages |-> <<>>]
NoClient == 0

\* uuid.uuid4() for a conversation: a value no earlier draw returned.
FreshConversationId(drawn) == drawn + 1

\* ConversationState.add_message: the Message appended (its content is the
\* number of the turn it belongs to; epoch records the last switch the
\* connection's handler had taken when that turn began).
AddMessage(messages, role, t, person_id) ==
    Append(messages, [role |-> role, turn |-> t.no, epoch |-> t.epoch,
                      person_id |-> person_id])

\* ConversationState.add_tool_call
AddToolCall(tool_calls, tool, t) ==
    Append(tool_calls, [tool |-> tool, turn |-> t.no, epoch |-> t.epoch])

\* Variant: the summary snapshot takes every message of the history.
PreviousMessagesUnfiltered(messages, previous_person_id) == messages

\* _handle_person_switch: the messages of the previous person.
PreviousMessages(messages, previous_person_id) ==
    SelectSeq(messages, LAMBDA msg : msg.person_id = previous_person_id)

\* _handle_person_switch starts the background summary thread.
StartsSummary(previous_person_id, has_database, messages) ==
    /\ previous_person_id # NoPerson
    /\ has_database
    /\ PreviousMessages(messages, previous_person_id) # <<>>

\* _handle_person_switch clears messages and tool_calls only when the message
\* list is not empty.
ClearsHistory(messages) == Len(messages) > 0

\* Variant: the handler joins the summary thread it started.
SummaryThreadJoinedByHandler(tasks) == \E i \in 1..Len(tasks) : ~tasks[i].done

\* summary_thread.start() is never followed by a join: the worker does not
\* wait for any summary thread.
SummaryThreadJoined(tasks) == FALSE

\* ========================================================= RECOGNITION WORKER
\* face_recognition_queue.get(timeout=0.1) returning a frame.
WorkerGet ==
    /\ worker_pc = "get"
    /\ face_recognition_queue # <<>>
    /\ worker_frame' = Head(face_recognition_queue)
    /\ face_recognition_queue' = Tail(face_recognition_queue)
    /\ worker_pc' = "process"
    /\ UNCHANGED <<worker_switch, worker_targets>>
    /\ UNCHANGED <<ingestVars, detectorVars, galleryVars, storeVars, clientVars,
                   conversationVars, poolVars, controlVars,
                   fanoutVars, historyVars>>

\* process_frame on the frame in hand; without a switch the pass ends here.
WorkerProcessFrame(rows) ==
    /\ worker_pc = "process"
    /\ rows \in RowOrders(faces)
    /\ LET r == ProcessFrameResult(worker_frame.face, clock + frame_gap, rows)
       IN /\ ApplyProcessFrame(r)
          /\ worker_pc' = IF r.switch THEN "recap" ELSE "get"
          /\ worker_switch' = IF r.switch
                              THEN [person_id |-> r.person_id, from |-> current_person_id,
                                    seq |-> switch_seq + 1, recap |-> NullRecap,
                                    llm_in_time |-> TRUE]
                              ELSE worker_switch
    /\ UNCHANGED <<worker_frame, worker_targets>>
    /\ UNCHANGED <<ingestVars, face_recognition_queue, clientVars, conversationVars,
                   poolVars, controlVars,
                   fanoutVars, sent>>

\* The methods class DatabaseManager defines.
DatabaseManagerMethods ==
    {"initialize_schema", "add_memory", "get_memories_for_person", "get_all_memories",
     "add_todo", "get_todos", "update_todo_status", "get_todo_by_id", "get_person_name",
     "get_face_by_person_id", "create_or_update_face", "person_exists", "add_summary",
     "get_latest_summary", "close"}

\* The texts of the summaries stored for a person, in insertion order.
SummariesOf(rows, person_id) ==
    SelectSeq(rows, LAMBDA row : row.person_id = person_id)

\* What the LLM makes of the summaries of a person.
RecapText == "recap"

\* ConversationSummarizer.generate_recap_from_summaries: the summaries of the
\* person are asked of database_manager.get_all_summaries (an AttributeError
\* when the manager has no such method, caught like every exception); with
\* none there is no recap, else the LLM is given 30 seconds to make one.
GenerateRecapFromSummaries(person_id, methods, rows, llm_in_time) ==
    IF "get_all_summaries" \notin methods THEN NullRecap
    ELSE IF SummariesOf(rows, person_id) = <<>> THEN NullRecap
    ELSE IF llm_in_time THEN RecapText
    ELSE NullRecap

\* On a switch: name and recap of the new person, then the snapshot
\* list(self.connections.items()) the update loop runs over. llm_in_time says
\* whether the summarizer's LLM would answer a recap request within 30 seconds.
WorkerRecap(llm_in_time) ==
    /\ worker_pc = "recap"
    /\ worker_switch' =
          IF worker_switch.person_id # NoPerson
          THEN [worker_switch EXCEPT
                  !.recap = GenerateRecapFromSummaries(worker_switch.person_id,
                                DatabaseManagerMethods, summaries, llm_in_time),
                  !.llm_in_time = llm_in_time]
          ELSE [worker_switch EXCEPT !.recap = NullRecap]
    /\ worker_targets' = connections
    /\ worker_pc' = "dispatch"
    /\ UNCHANGED worker_frame
    /\ UNCHANGED <<ingestVars, face_recognition_queue, detectorVars, galleryVars,
                   storeVars, clientVars, conversationVars, poolVars, controlVars,
                   fanoutVars, historyVars>>

\* _handle_person_switch reaches its on_person_switch callback only for a
\* person: a switch to None returns before it.
HandlerNotifies(person_id) == person_id # NoPerson

\* One pass of the update loop: the orchestrator's conversation state is set
\* and _handle_person_switch called. The handler starts the summary thread of
\* the previous person, clears the history, records the new person, and for a
\* person draws a new conversation_id and calls on_person_switch, which puts
\* the switch into the connection's own person_switch_queue.
WorkerDispatch ==
    /\ worker_pc = "dispatch"
    /\ worker_targets # <<>>
    /\ ~SummaryThreadJoined(summary_tasks)
    /\ \E llm_in_time \in BOOLEAN :
       LET c == Head(worker_targets).client
           person_id == worker_switch.person_id
           previous_person_id == orch_previous_person_id[c]
           messages == conv_messages[c]
           item == [person_id |-> person_id, seq |-> worker_switch.seq,
                    recap |-> GenerateRecapFromSummaries(person_id,
                                  DatabaseManagerMethods, summaries, llm_in_time)]
       IN /\ conv_current_person_id' = [conv_current_person_id EXCEPT ![c] = person_id]
          /\ summary_tasks' =
                 IF StartsSummary(previous_person_id, orch_database[c], messages)
                 THEN Append(summary_tasks,
                        [client |-> c, person_id |-> previous_person_id,
                         messages |-> PreviousMessages(messages, previous_person_id),
                         conversation_id |-> conv_conversation_id[c],
                         seq |-> worker_switch.seq, done |-> FALSE,
                         pc |-> "llm", llm_ok |-> TRUE, text |-> NullRecap,
                         gen |-> 0])
                 ELSE summary_tasks
          /\ conv_messages' = IF ClearsHistory(messages)
                              THEN [conv_messages EXCEPT ![c] = <<>>]
                              ELSE conv_messages
          /\ conv_tool_calls' = IF ClearsHistory(messages)
                                THEN [conv_tool_calls EXCEPT ![c] = <<>>]
                                ELSE conv_tool_calls
          /\ orch_previous_person_id' = [orch_previous_person_id EXCEPT ![c] = person_id]
          /\ orch_handled' = [orch_handled EXCEPT ![c] = worker_switch.seq]
          /\ IF HandlerNotifies(person_id)
             THEN /\ conv_conversation_id' = [conv_conversation_id EXCEPT
                        ![c] = FreshConversationId(conversation_uuid_next)]
                  /\ conversation_uuid_next' = conversation_uuid_next + 1
                  /\ client_mailbox' =
                        [client_mailbox EXCEPT ![c] = Append(client_mailbox[c], item)]
                  /\ event_log' = Append(event_log,
                        [type |-> "put", person |-> person_id,
                         seq |-> worker_switch.seq])
             ELSE UNCHANGED <<conv_conversation_id, conversation_uuid_next,
                              client_mailbox, event_log>>
    /\ worker_targets' = Tail(worker_targets)
    /\ UNCHANGED <<worker_pc, worker_frame, worker_switch>>
    /\ UNCHANGED <<connections, client_state, client_conn_id>>
    /\ UNCHANGED <<orch_database, turn_pc, turn, turns_started, summaries,
                   notification_callback, notification_queue, socket_stalled,
                   notifications_sent>>
    /\ UNCHANGED <<ingestVars, face_recognition_queue, detectorVars, galleryVars,
                   storeVars, fanoutVars, sent, switch_seq>>
    /\ UNCHANGED <<poolVars, controlVars>>

\* _notify_all_clients_person_switch: the switch is put on the server-wide
\* queue (call_soon_threadsafe), and the pass ends.
WorkerNotify ==
    /\ worker_pc = "dispatch"
    /\ worker_targets = <<>>
    /\ ~SummaryThreadJoined(summary_tasks)
    /\ person_switch_queue' = Append(person_switch_queue,
            [person_id |-> worker_switch.person_id, seq |-> worker_switch.seq,
             recap |-> worker_switch.recap])
    /\ event_log' = Append(event_log,
            [type |-> "put", person |-> worker_switch.person_id,
             seq |-> worker_switch.seq])
    /\ worker_pc' = "get"
    /\ UNCHANGED <<worker_frame, worker_switch, worker_targets>>
    /\ UNCHANGED <<fanout_pc, fanout_item, fanout_targets>>
    /\ UNCHANGED <<ingestVars, face_recognition_queue, detectorVars, galleryVars,
                   storeVars, clientVars, conversationVars, poolVars, controlVars,
                   sent, switch_seq>>

\* ================================================== WEBSOCKET SERVER (event loop)
Clients == {1, 2}
\* Threads that may be inside an operation of one DatabaseManager at once.
DbThreads == 1..6
NoOperation == [pc |-> "idle", gen |-> 0, failed |-> FALSE]
\* connection_id of a connection whose remote address is not available.
UnknownConnId == 0

\* self.connections[connection_id] = {...}: a dict keeps a key's first position.
DictSet(d, id, c) ==
    IF \E i \in 1..Len(d) : d[i].id = id
    THEN [i \in 1..Len(d) |-> IF d[i].id = id THEN [id |-> id, client |-> c] ELSE d[i]]
    ELSE Append(d, [id |-> id, client |-> c])

\* del self.connections[connection_id]
DictDel(d, id) == SelectSeq(d, LAMBDA entry : entry.id # id)

\* handle_connection up to the welcome message: the connection id is taken from
\* the remote address, a DatabaseManager opened (None when that fails), the
\* orchestrator built with a new ConversationState, its two queues and drain
\* tasks, set_callbacks called (which overwrites the notification tool's
\* module-level callback), and the connection registered.
Connect(c, has_address, has_database) ==
    /\ client_state[c] = "new"
    /\ has_database => store_up
    /\ LET connection_id == IF has_address THEN c ELSE UnknownConnId
       IN /\ client_conn_id' = [client_conn_id EXCEPT ![c] = connection_id]
          /\ connections' = DictSet(connections, connection_id, c)
    /\ client_state' = [client_state EXCEPT ![c] = "open"]
    /\ orch_database' = [orch_database EXCEPT ![c] = has_database]
    /\ conv_conversation_id' = [conv_conversation_id EXCEPT
            ![c] = FreshConversationId(conversation_uuid_next)]
    /\ conversation_uuid_next' = conversation_uuid_next + 1
    /\ notification_callback' = c
    /\ db_pool' = [db_pool EXCEPT ![c] = InitializePool(db_pool[c], has_database)]
    /\ UNCHANGED <<db_ops, control_log>>
    /\ UNCHANGED <<client_mailbox, orch_previous_person_id, conv_current_person_id>>
    /\ UNCHANGED <<conv_messages, conv_tool_calls, turn_pc, turn, turns_started,
                   summary_tasks, summaries, notification_queue, socket_stalled,
                   orch_handled, notifications_sent>>
    /\ UNCHANGED <<ingestVars, face_recognition_queue, workerVars, detectorVars,
                   galleryVars, storeVars, fanoutVars, historyVars>>

\* The finally block of handle_connection: the drain tasks are cancelled, the
\* orchestrator stopped (its speech handler stopped, its database manager
\* closed) and the entry under this connection's id deleted.
Disconnect(c) ==
    /\ client_state[c] = "open"
    /\ client_state' = [client_state EXCEPT ![c] = "closed"]
    /\ connections' = DictDel(connections, client_conn_id[c])
    /\ db_pool' = [db_pool EXCEPT ![c] = ClosePool(db_pool[c])]
    /\ UNCHANGED <<db_ops, control_log>>
    /\ UNCHANGED <<client_conn_id, client_mailbox, orch_previous_person_id,
                   conv_current_person_id>>
    /\ UNCHANGED <<ingestVars, face_recognition_queue, workerVars, detectorVars,
                   galleryVars, storeVars, conversationVars, fanoutVars, historyVars>>

\* The peer of an open connection stops reading: from here on a send on its
\* socket does not complete.
SocketStall(c) ==
    /\ client_state[c] = "open"
    /\ ~socket_stalled[c]
    /\ socket_stalled' = [socket_stalled EXCEPT ![c] = TRUE]
    /\ UNCHANGED <<orch_database, conv_messages, conv_tool_calls, conv_conversation_id,
                   conversation_uuid_next, turn_pc, turn, turns_started, summary_tasks,
                   summaries, notification_callback, notification_queue, orch_handled,
                   notifications_sent>>
    /\ UNCHANGED <<ingestVars, face_recognition_queue, workerVars, detectorVars,
                   galleryVars, storeVars, clientVars, fanoutVars, historyVars>>
    /\ UNCHANGED <<poolVars, controlVars>>

\* await websocket.send(...) on the socket of client c returns (or raises
\* ConnectionClosed) unless the connection is open and its peer has stalled.
SendReturns(c) == ~(client_state[c] = "open" /\ socket_stalled[c])

\* _send_person_switch: the switch_interaction_person frame as the client sees it.
SwitchFrame(item) == [seq |-> item.seq, person_id |-> item.person_id, recap |-> item.recap]

\* The connection's process_person_switch_queue task: one item taken and sent.
ClientSwitchDrain(c) ==
    /\ client_state[c] = "open"
    /\ client_mailbox[c] # <<>>
    /\ SendReturns(c)
    /\ sent' = [sent EXCEPT ![c] = Append(sent[c], SwitchFrame(Head(client_mailbox[c])))]
    /\ client_mailbox' = [client_mailbox EXCEPT ![c] = Tail(client_mailbox[c])]
    /\ UNCHANGED <<connections, client_state, client_conn_id, orch_previous_person_id,
                   conv_current_person_id>>
    /\ UNCHANGED <<ingestVars, face_recognition_queue, workerVars, detectorVars,
                   galleryVars, storeVars, conversationVars, poolVars, controlVars,
                   fanoutVars, event_log,
                   switch_seq>>

\* The server's process_person_switch_queue task takes an item and the
\* snapshot list(self.connections.items()) it will send to.
FanoutGet ==
    /\ fanout_pc = "get"
    /\ person_switch_queue # <<>>
    /\ fanout_item' = Head(person_switch_queue)
    /\ person_switch_queue' = Tail(person_switch_queue)
    /\ fanout_targets' = connections
    /\ fanout_pc' = IF connections = <<>> THEN "get" ELSE "send"
    /\ UNCHANGED <<ingestVars, face_recognition_queue, workerVars, detectorVars,
                   galleryVars, storeVars, clientVars, conversationVars, poolVars,
                   controlVars, historyVars>>

\* await self._send_person_switch(websocket, ...) for the next connection of
\* the snapshot; a closed socket raises ConnectionClosed, which is caught.
FanoutSend ==
    /\ fanout_pc = "send"
    /\ SendReturns(Head(fanout_targets).client)
    /\ LET c == Head(fanout_targets).client
       IN sent' = IF client_state[c] = "open"
                  THEN [sent EXCEPT ![c] = Append(sent[c], SwitchFrame(fanout_item))]
                  ELSE sent
    /\ fanout_targets' = Tail(fanout_targets)
    /\ fanout_pc' = IF Tail(fanout_targets) = <<>> THEN "get" ELSE "send"
    /\ UNCHANGED <<person_switch_queue, fanout_item>>
    /\ UNCHANGED <<ingestVars, face_recognition_queue, workerVars, detectorVars,
                   galleryVars, storeVars, clientVars, conversationVars, poolVars,
                   controlVars, event_log,
                   switch_seq>>

\* =========================================== TRANSCRIPT TURNS (speech thread)
NoFurtherResponse == "[NO FURTHER RESPONSE]"
ReplyText == "reply"
\* What a run of the agent does: it answers with text, calls a tool other
\* than the notification tool, calls the notification tool, answers with
\* nothing, or agent.invoke raises.
AgentOutcomes == {"reply", "tool", "notify", "empty", "error"}
ToolOf(outcome) == IF outcome = "notify" THEN "notification_tool" ELSE "todo_tool"
CallsTool(outcome) == outcome \in {"tool", "notify"}

\* Variant: the reply text is returned although a tool was called.
ProcessUtteranceKeepsReply(outcome) ==
    IF outcome \in {"reply", "tool", "notify"} THEN ReplyText ELSE NoFurtherResponse

\* Variant: the text of the exception is returned as the reply.
ProcessUtteranceReportsError(outcome) ==
    IF outcome \in {"reply", "error"} THEN ReplyText ELSE NoFurtherResponse

\* ConversationAgent.process_utterance: the string it returns.
ProcessUtterance(outcome) ==
    CASE outcome = "error"  -> NoFurtherResponse
      [] CallsTool(outcome) -> NoFurtherResponse
      [] outcome = "reply"  -> ReplyText
      [] OTHER              -> NoFurtherResponse

\* Variant: one ConversationState shared by every orchestrator.
ConversationStateShared(c) == 1

\* The ConversationState an orchestrator and its agent write into: the one the
\* orchestrator of the connection built for itself.
ConversationStateOf(c) == c

\* process_utterance: the list handed to agent.invoke after the system prompt,
\* a HumanMessage or AIMessage for every message of the conversation state,
\* then a HumanMessage for the utterance (a content is the number of its turn).
AgentMessages(history, utterance) ==
    [i \in 1..Len(history) |-> [role |-> history[i].role, turn |-> history[i].turn]]
    \o <<[role |-> "user", turn |-> utterance]>>

\* A final transcript reaches _handle_turn_complete on the connection's
\* speech thread. A blank utterance is ignored; otherwise the user message is
\* appended, tagged with conversation_state.current_person_id, and the agent
\* is invoked on the list built from the state and the utterance.
TurnBegin(c, blank) ==
    /\ client_state[c] = "open"
    /\ turn_pc[c] = "idle"
    /\ turns_started < MaxTurns
    /\ turns_started' = turns_started + 1
    /\ IF blank
       THEN UNCHANGED <<turn, conv_messages, turn_pc>>
       ELSE LET utterance == [no |-> turns_started + 1,
                              person_id |-> conv_current_person_id[c],
                              epoch |-> orch_handled[c], outcome |-> "none",
                              messages |-> <<>>]
                 st == ConversationStateOf(c)
                 history == AddMessage(conv_messages[st], "user", utterance,
                                       utterance.person_id)
                 t == [utterance EXCEPT !.messages = AgentMessages(history, utterance.no)]
            IN /\ turn' = [turn EXCEPT ![c] = t]
               /\ conv_messages' = [conv_messages EXCEPT ![st] = history]
               /\ turn_pc' = [turn_pc EXCEPT ![c] = "agent"]
    /\ UNCHANGED <<orch_database, conv_tool_calls, conv_conversation_id,
                   conversation_uuid_next, summary_tasks, summaries,
                   notification_callback, notification_queue, socket_stalled,
                   orch_handled, notifications_sent>>
    /\ UNCHANGED <<ingestVars, face_recognition_queue, workerVars, detectorVars,
                   galleryVars, storeVars, clientVars, fanoutVars, historyVars>>
    /\ UNCHANGED <<poolVars, controlVars>>

\* The queue the notification tool's callback puts into: the one of the
\* connection whose set_callbacks ran last.
NotificationTarget(c, callback) == callback

\* process_utterance returns and _handle_turn_complete finishes: a notification
\* tool call has run the module-level callback, every tool call is recorded
\* in the connection's state, and a reply other than the sentinel is appended
\* as the assistant message.
AgentReturn(c, outcome) ==
    /\ turn_pc[c] = "agent"
    /\ outcome \in AgentOutcomes
    /\ LET t == turn[c]
           target == NotificationTarget(c, notification_callback)
           st == ConversationStateOf(c)
       IN /\ notification_queue' =
                 IF outcome = "notify" /\ target # NoClient
                 THEN [notification_queue EXCEPT
                          ![target] = Append(notification_queue[target],
                                             [turn |-> t.no, client |-> c])]
                 ELSE notification_queue
          /\ conv_tool_calls' =
                 IF CallsTool(outcome)
                 THEN [conv_tool_calls EXCEPT
                          ![st] = AddToolCall(conv_tool_calls[st], ToolOf(outcome), t)]
                 ELSE conv_tool_calls
          /\ conv_messages' =
                 IF ProcessUtterance(outcome) # NoFurtherResponse
                 THEN [conv_messages EXCEPT
                          ![st] = AddMessage(conv_messages[st], "assistant", t, NoPerson)]
                 ELSE conv_messages
          /\ turn' = [turn EXCEPT ![c].outcome = outcome]
    /\ turn_pc' = [turn_pc EXCEPT ![c] = "idle"]
    /\ UNCHANGED <<orch_database, conv_conversation_id, conversation_uuid_next,
                   turns_started, summary_tasks, summaries, notification_callback,
                   socket_stalled, orch_handled, notifications_sent>>
    /\ UNCHANGED <<ingestVars, face_recognition_queue, workerVars, detectorVars,
                   galleryVars, storeVars, clientVars, fanoutVars, historyVars>>
    /\ UNCHANGED <<poolVars, controlVars>>

\* ConversationSummarizer.generate_summary: the "summary" text of the dict it
\* returns - the LLM's summary, or the fallback "Error generating summary: ..."
\* it builds when the LLM call raises.
SummaryRecap == "summary"
ErrorSummary == "Error generating summary"

SummaryText(llm_ok) == IF llm_ok THEN SummaryRecap ELSE ErrorSummary

\* A summary thread ends.
EndSummaryOf(tasks, i) == [tasks EXCEPT ![i].pc = "done", ![i].done = TRUE]
EndSummary(i) == EndSummaryOf(summary_tasks, i)

\* A background summary thread, generate_and_save_summary up to the start of
\* add_summary: the LLM has answered or failed, the text is settled, and a
\* connection is taken from the pool of the orchestrator's database manager.
\* When no connection can be had the call raises, generate_and_save_summary
\* returns None and the thread ends.
SummaryGenerate(i, llm_ok) ==
    /\ i \in 1..Len(summary_tasks)
    /\ summary_tasks[i].pc = "llm"
    /\ LET c == summary_tasks[i].client
           text == SummaryText(llm_ok)
           r == GetConnection(db_pool[c], store_up)
           answered == [summary_tasks EXCEPT ![i].llm_ok = llm_ok, ![i].text = text]
       IN IF r.ok
          THEN /\ summary_tasks' = [answered EXCEPT
                      ![i].pc = "insert", ![i].gen = r.pool.gen]
               /\ db_pool' = [db_pool EXCEPT ![c] = r.pool]
          ELSE /\ summary_tasks' = EndSummaryOf(answered, i)
               /\ UNCHANGED db_pool
    /\ UNCHANGED <<orch_database, conv_messages, conv_tool_calls, conv_conversation_id,
                   conversation_uuid_next, turn_pc, turn, turns_started, summaries,
                   notification_callback, notification_queue, socket_stalled,
                   orch_handled, notifications_sent, db_ops, control_log>>
    /\ UNCHANGED <<ingestVars, face_recognition_queue, workerVars, detectorVars,
                   galleryVars, storeVars, clientVars, fanoutVars, historyVars>>

\* add_summary on the connection taken: the INSERT is committed, or fails when
\* the store or the connection is gone; the connection is returned in the
\* finally block. After a failure generate_and_save_summary returns None and
\* the thread ends.
SummaryInsert(i) ==
    /\ i \in 1..Len(summary_tasks)
    /\ summary_tasks[i].pc = "insert"
    /\ LET c == summary_tasks[i].client
           ok == ConnectionUsable(db_pool[c], summary_tasks[i].gen, store_up)
       IN /\ db_pool' = [db_pool EXCEPT
                 ![c] = ReturnConnection(db_pool[c], summary_tasks[i].gen, ~ok)]
          /\ IF ok
             THEN /\ summaries' = Append(summaries,
                        [person_id |-> summary_tasks[i].person_id,
                         client |-> c,
                         conversation_id |-> summary_tasks[i].conversation_id,
                         messages |-> summary_tasks[i].messages,
                         text |-> summary_tasks[i].text])
                  /\ summary_tasks' = [summary_tasks EXCEPT ![i].pc = "update"]
             ELSE /\ summary_tasks' = EndSummary(i)
                  /\ UNCHANGED summaries
    /\ UNCHANGED <<orch_database, conv_messages, conv_tool_calls, conv_conversation_id,
                   conversation_uuid_next, turn_pc, turn, turns_started,
                   notification_callback, notification_queue, socket_stalled,
                   orch_handled, notifications_sent, db_ops, control_log>>
    /\ UNCHANGED <<ingestVars, face_recognition_queue, workerVars, detectorVars,
                   galleryVars, storeVars, clientVars, fanoutVars, historyVars>>

\* create_or_update_face(person_id, recap=summary_text) begins: a connection
\* is taken; when none can be had the error is logged and the thread ends.
SummaryUpdate(i) ==
    /\ i \in 1..Len(summary_tasks)
    /\ summary_tasks[i].pc = "update"
    /\ LET c == summary_tasks[i].client
           r == GetConnection(db_pool[c], store_up)
       IN IF r.ok
          THEN /\ summary_tasks' = [summary_tasks EXCEPT
                      ![i].pc = "recap", ![i].gen = r.pool.gen]
               /\ db_pool' = [db_pool EXCEPT ![c] = r.pool]
          ELSE /\ summary_tasks' = EndSummary(i)
               /\ UNCHANGED db_pool
    /\ UNCHANGED <<orch_database, conv_messages, conv_tool_calls, conv_conversation_id,
                   conversation_uuid_next, turn_pc, turn, turns_started, summaries,
                   notification_callback, notification_queue, socket_stalled,
                   orch_handled, notifications_sent, db_ops, control_log>>
    /\ UNCHANGED <<ingestVars, face_recognition_queue, workerVars, detectorVars,
                   galleryVars, storeVars, clientVars, fanoutVars, historyVars>>

\* create_or_update_face on the connection taken: the recap of the person is
\* written, or the write fails; the connection is returned and the thread ends.
SummaryRecapWrite(i) ==
    /\ i \in 1..Len(summary_tasks)
    /\ summary_tasks[i].pc = "recap"
    /\ LET c == summary_tasks[i].client
           ok == ConnectionUsable(db_pool[c], summary_tasks[i].gen, store_up)
       IN /\ db_pool' = [db_pool EXCEPT
                 ![c] = ReturnConnection(db_pool[c], summary_tasks[i].gen, ~ok)]
          /\ faces' = IF ok
                      THEN CreateOrUpdateFace(faces, summary_tasks[i].person_id,
                                              NullEmbedding, NullCount,
                                              summary_tasks[i].text)
                      ELSE faces
    /\ summary_tasks' = EndSummary(i)
    /\ UNCHANGED store_up
    /\ UNCHANGED <<orch_database, conv_messages, conv_tool_calls, conv_conversation_id,
                   conversation_uuid_next, turn_pc, turn, turns_started, summaries,
                   notification_callback, notification_queue, socket_stalled,
                   orch_handled, notifications_sent, db_ops, control_log>>
    /\ UNCHANGED <<ingestVars, face_recognition_queue, workerVars, detectorVars,
                   galleryVars, clientVars, fanoutVars, historyVars>>

\* One step of the summary thread i.
SummaryStep(i) ==
    \/ \E llm_ok \in BOOLEAN : SummaryGenerate(i, llm_ok)
    \/ SummaryInsert(i)
    \/ SummaryUpdate(i)
    \/ SummaryRecapWrite(i)

\* The connection's process_notification_queue task: one notification taken
\* and sent.
NotificationDrain(c) ==
    /\ client_state[c] = "open"
    /\ notification_queue[c] # <<>>
    /\ SendReturns(c)
    /\ notifications_sent' = [notifications_sent EXCEPT
            ![c] = Append(notifications_sent[c], Head(notification_queue[c]))]
    /\ notification_queue' = [notification_queue EXCEPT ![c] = Tail(notification_queue[c])]
    /\ UNCHANGED <<orch_database, conv_messages, conv_tool_calls, conv_conversation_id,
                   conversation_uuid_next, turn_pc, turn, turns_started, summary_tasks,
                   summaries, notification_callback, socket_stalled, orch_handled>>
    /\ UNCHANGED <<ingestVars, face_recognition_queue, workerVars, detectorVars,
                   galleryVars, storeVars, clientVars, fanoutVars, historyVars>>
    /\ UNCHANGED <<poolVars, controlVars>>

\* ============================================ CONTROL MESSAGES (event loop)
\* A name field that is absent or empty.
NoName == ""
PersonNames == {NoName, "Ann"}
NewNames == {NoName, "Bob"}

\* The "type" of the frame _handle_control_message answers a change_name with:
\* an error without new_name or without a database manager; else the rename
\* is asked of database_manager.update_person_name for the bound person, or of
\* update_person_name_by_name for person_name. A manager without that method
\* raises AttributeError, which is answered with an error like any exception.
ChangeNameAnswer(methods, has_database, person_id, person_name, new_name) ==
    IF new_name = NoName THEN "error"
    ELSE IF ~has_database THEN "error"
    ELSE IF person_id # NoPerson
         THEN IF "update_person_name" \in methods
              THEN "change_name_response" ELSE "error"
    ELSE IF person_name # NoName
         THEN IF "update_person_name_by_name" \in methods
              THEN "change_name_response" ELSE "error"
    ELSE "error"

\* _handle_control_message for {"type": "change_name", person_name, new_name}
\* on the connection of client c. No call that exists writes to the store.
ChangeName(c, person_name, new_name) ==
    /\ client_state[c] = "open"
    /\ Len(control_log[c]) < MaxControl
    /\ control_log' = [control_log EXCEPT ![c] = Append(control_log[c],
            [person_name |-> person_name,
             new_name |-> new_name,
             person_id |-> conv_current_person_id[c],
             database |-> orch_database[c],
             answer |-> ChangeNameAnswer(DatabaseManagerMethods, orch_database[c],
                            conv_current_person_id[c], person_name, new_name)])]
    /\ UNCHANGED <<ingestVars, face_recognition_queue, workerVars, detectorVars,
                   galleryVars, storeVars, clientVars, conversationVars, poolVars,
                   fanoutVars, historyVars>>

\* ====================================== DATABASE OPERATIONS (any calling thread)
\* Every operation of DatabaseManager (initialize_schema, add_memory, ...,
\* get_latest_summary) and load_face_database_from_db has the same shape:
\*     conn = self._get_connection()
\*     try: ... commit      except Exception: conn.rollback(); raise RuntimeError
\*     finally: self._return_connection(conn)
\* Thread t enters an operation on the database manager of connection c: a
\* connection is taken, or the call raises and the operation is over.
OpBegin(c, t) ==
    /\ orch_database[c]
    /\ db_ops[t].pc = "idle"
    /\ LET r == GetConnection(db_pool[c], store_up)
       IN /\ db_pool' = [db_pool EXCEPT ![c] = r.pool]
          /\ db_ops' = IF r.ok
                       THEN [db_ops EXCEPT ![t] =
                               [pc |-> "body", gen |-> r.pool.gen, failed |-> FALSE]]
                       ELSE db_ops
    /\ UNCHANGED <<ingestVars, face_recognition_queue, workerVars, detectorVars,
                   galleryVars, storeVars, clientVars, conversationVars, fanoutVars,
                   historyVars>>
    /\ UNCHANGED controlVars

\* The try block: the statements and the commit succeed, or one of them
\* raises and the except block rolls back and raises RuntimeError. Either
\* way control passes to the finally block.
OpBody(c, t, ok) ==
    /\ db_ops[t].pc = "body"
    /\ db_ops' = [db_ops EXCEPT ![t].pc = "finally",
            ![t].failed = ~(ok /\ ConnectionUsable(db_pool[c], db_ops[t].gen, store_up))]
    /\ UNCHANGED db_pool
    /\ UNCHANGED <<ingestVars, face_recognition_queue, workerVars, detectorVars,
                   galleryVars, storeVars, clientVars, conversationVars, fanoutVars,
                   historyVars>>
    /\ UNCHANGED controlVars

\* The finally block: the connection goes back to the pool.
OpFinally(c, t) ==
    /\ db_ops[t].pc = "finally"
    /\ db_pool' = [db_pool EXCEPT
            ![c] = ReturnConnection(db_pool[c], db_ops[t].gen, db_ops[t].failed)]
    /\ db_ops' = [db_ops EXCEPT ![t] = NoOperation]
    /\ UNCHANGED <<ingestVars, face_recognition_queue, workerVars, detectorVars,
                   galleryVars, storeVars, clientVars, conversationVars, fanoutVars,
                   historyVars>>
    /\ UNCHANGED controlVars

\* ============================================================== SPECIFICATIONS
NoFrame == [seq |-> 0, face |-> NoFace]
NoSwitch ==
    [person_id |-> NoPerson, from |-> NoPerson, seq |-> 0, recap |-> NullRecap,
     llm_in_time |-> TRUE]

\* A faces table holding one row for each of the given persons, person p
\* stored with the embedding of face p and count 1.
Gallery(ids) ==
    [p \in ids |-> [embedding |-> Embedding(p), count |-> 1, recap |-> NullRecap]]

\* The state after construction (WebSocketServer.__init__, start_esp32_processing,
\* FacialRecognitionService.__init__), for a camera scene, a stored gallery, a
\* pace of the frames and an FPS estimate (10.0 after construction).
InitWith(scenes, galleries, gaps, rates) ==
    /\ ingest_pc = "read"
    /\ ingest_frame = NoFrame
    /\ consecutive_errors = 0
    /\ queue_dropped = FALSE
    /\ frames_read = 0
    /\ scene \in scenes
    /\ camera_face \in scene
    /\ camera_changes = 0
    /\ face_recognition_queue = <<>>
    /\ worker_pc = "get"
    /\ worker_frame = NoFrame
    /\ worker_switch = NoSwitch
    /\ worker_targets = <<>>
    /\ frame_history = <<>>
    /\ current_person_id = NoPerson
    /\ frame_timestamps = <<>>
    /\ current_fps \in rates
    /\ history_size = HistorySizeFor(current_fps)
    /\ person_threshold = 0
    /\ no_person_threshold = 0
    /\ embedding_averages = <<>>
    /\ face_database_cache = <<>>
    /\ face_database_cache_time = 0
    /\ uuid_next = 0
    /\ clock = 0
    /\ frame_gap \in gaps
    /\ frames_processed = 0
    /\ store_up = TRUE
    /\ faces \in galleries
    /\ connections = <<>>
    /\ client_state = [c \in Clients |-> "new"]
    /\ client_conn_id = [c \in Clients |-> UnknownConnId]
    /\ client_mailbox = [c \in Clients |-> <<>>]
    /\ person_switch_queue = <<>>
    /\ fanout_pc = "get"
    /\ fanout_item = NoSwitch
    /\ fanout_targets = <<>>
    /\ orch_previous_person_id = [c \in Clients |-> NoPerson]
    /\ conv_current_person_id = [c \in Clients |-> NoPerson]
    /\ orch_database = [c \in Clients |-> FALSE]
    /\ conv_messages = [c \in Clients |-> <<>>]
    /\ conv_tool_calls = [c \in Clients |-> <<>>]
    /\ conv_conversation_id = [c \in Clients |-> NoConversation]
    /\ conversation_uuid_next = 0
    /\ turn_pc = [c \in Clients |-> "idle"]
    /\ turn = [c \in Clients |-> NoTurn]
    /\ turns_started = 0
    /\ summary_tasks = <<>>
    /\ summaries = <<>>
    /\ notification_callback = NoClient
    /\ notification_queue = [c \in Clients |-> <<>>]
    /\ socket_stalled = [c \in Clients |-> FALSE]
    /\ orch_handled = [c \in Clients |-> 0]
    /\ notifications_sent = [c \in Clients |-> <<>>]
    /\ db_pool = [c \in Clients |-> NoPool]
    /\ db_ops = [t \in DbThreads |-> NoOperation]
    /\ control_log = [c \in Clients |-> <<>>]
    /\ sent = [c \in Clients |-> <<>>]
    /\ event_log = <<>>
    /\ switch_seq = 0

\* Reads that deliver a well-formed, decodable payload.
GoodReads == {rd \in ReadInputs : ~FrameReadFails(rd) /\ rd.decodable}

\* ---- the pipeline: camera -> ingest -> queue -> worker -> clients. The socket
\* delivers well-formed frames, the next one once the queue has room, the
\* worker processes one frame per second, and every client has an address.
Init == InitWith({{NoFace, 1}}, {Gallery({1, 2})}, {TicksPerSecond}, {DefaultFps})

Next ==
    \/ \E rd \in GoodReads, face \in scene :
          Len(face_recognition_queue) < QueueMaxSize /\ IngestReadFrame(rd, face)
    \/ IngestEnqueue
    \/ WorkerGet
    \/ \E rows \in RowOrders(faces) : WorkerProcessFrame(rows)
    \/ WorkerRecap(TRUE)
    \/ WorkerDispatch
    \/ WorkerNotify
    \/ \E c \in Clients : Connect(c, TRUE, TRUE)
    \/ \E c \in Clients : Disconnect(c)
    \/ \E c \in Clients : ClientSwitchDrain(c)
    \/ FanoutGet
    \/ FanoutSend

Spec == Init /\ [][Next]_vars

\* ---- conversations: the worker takes a frame per second straight from the
\* camera (the queue stays empty), a connection comes and goes, with or without
\* a database, and its speech thread delivers transcripts to the agent. The
\* drain tasks of the event loop, which touch only mailboxes and sockets, do
\* not run here.
\* The worker's get and process_frame in one step, on a frame showing `face`.
WorkerFrame(face, rows) ==
    /\ worker_pc = "get"
    /\ face_recognition_queue = <<>>
    /\ face \in scene
    /\ rows \in RowOrders(faces)
    /\ frames_read' = frames_read + 1
    /\ camera_face' = face
    /\ camera_changes' = IF face = camera_face THEN camera_changes ELSE camera_changes + 1
    /\ worker_frame' = [seq |-> frames_read + 1, face |-> face]
    /\ LET r == ProcessFrameResult(face, clock + frame_gap, rows)
       IN /\ ApplyProcessFrame(r)
          /\ worker_pc' = IF r.switch THEN "recap" ELSE "get"
          /\ worker_switch' = IF r.switch
                              THEN [person_id |-> r.person_id, from |-> current_person_id,
                                    seq |-> switch_seq + 1, recap |-> NullRecap,
                                    llm_in_time |-> TRUE]
                              ELSE worker_switch
    /\ UNCHANGED <<ingest_pc, ingest_frame, consecutive_errors, queue_dropped, scene>>
    /\ UNCHANGED <<face_recognition_queue, worker_targets, clientVars,
                   conversationVars, poolVars, controlVars,
                   fanoutVars, sent>>

InitConversation ==
    InitWith({{NoFace, 1}, {1, 2}}, {Gallery({1, 2})}, {TicksPerSecond}, {DefaultFps})

\* The connections that come and go in this specification.
Talkers == {1}

\* The camera delivers at most `frames` frames, the face in view changing at
\* most `changes` times.
CameraShows(face, frames, changes) ==
    /\ frames_read < frames
    /\ face = camera_face \/ camera_changes < changes

NextConversation ==
    \/ \E face \in scene, rows \in RowOrders(faces) :
          CameraShows(face, TalkFrames, TalkChanges) /\ WorkerFrame(face, rows)
    \/ WorkerRecap(TRUE)
    \/ WorkerDispatch
    \/ WorkerNotify
    \/ \E c \in Talkers, has_database \in BOOLEAN : Connect(c, TRUE, has_database)
    \/ \E c \in Talkers : Disconnect(c)
    \/ \E c \in Talkers, blank \in BOOLEAN : TurnBegin(c, blank)
    \/ \E c \in Talkers, outcome \in AgentOutcomes : AgentReturn(c, outcome)
    \/ \E i \in 1..Len(summary_tasks) : SummaryStep(i)

SpecConversation == InitConversation /\ [][NextConversation]_vars

\* ---- summaries that may hang: one connection with a database talks to two
\* stored persons who take turns before the camera. The worker is a thread of
\* its own and keeps running; a summary thread waits on its LLM call and the
\* store for as long as they take, possibly for ever.
InitSummaries ==
    InitWith({{1, 2}}, {Gallery({1, 2})}, {TicksPerSecond}, {DefaultFps})

NextSummaries ==
    \/ \E face \in scene, rows \in RowOrders(faces) :
          CameraShows(face, HangFrames, HangChanges) /\ WorkerFrame(face, rows)
    \/ \E llm_in_time \in BOOLEAN : WorkerRecap(llm_in_time)
    \/ WorkerDispatch
    \/ WorkerNotify
    \/ \E c \in Talkers : Connect(c, TRUE, TRUE)
    \/ \E c \in Talkers : TurnBegin(c, FALSE)
    \/ \E c \in Talkers : AgentReturn(c, "reply")
    \/ \E i \in 1..Len(summary_tasks) : SummaryStep(i)

SpecSummaries ==
    /\ InitSummaries
    /\ [][NextSummaries]_vars
    /\ WF_vars(\E llm_in_time \in BOOLEAN : WorkerRecap(llm_in_time))
    /\ WF_vars(WorkerDispatch)
    /\ WF_vars(WorkerNotify)

\* ---- fan-out: the worker takes frames straight from the camera and two
\* connections come, go, and may stop reading. The worker thread and the tasks
\* of the event loop run whenever they can; a connection is free to stay, and
\* a stalled peer to stay stalled, for ever.
InitFanout == InitWith({{NoFace, 1}}, {Gallery({1, 2})}, {TicksPerSecond}, {DefaultFps})

NextFanout ==
    \/ \E face \in scene, rows \in RowOrders(faces) :
          CameraShows(face, MaxFrames, MaxChanges) /\ WorkerFrame(face, rows)
    \/ WorkerRecap(TRUE)
    \/ WorkerDispatch
    \/ WorkerNotify
    \/ \E c \in Clients : Connect(c, TRUE, TRUE)
    \/ \E c \in Clients : Disconnect(c)
    \/ \E c \in Clients : SocketStall(c)
    \/ \E c \in Clients : ClientSwitchDrain(c)
    \/ FanoutGet
    \/ FanoutSend

SpecFanout ==
    /\ InitFanout
    /\ [][NextFanout]_vars
    /\ WF_vars(WorkerRecap(TRUE))
    /\ WF_vars(WorkerDispatch)
    /\ WF_vars(WorkerNotify)
    /\ WF_vars(FanoutGet)
    /\ WF_vars(FanoutSend)
    /\ \A c \in Clients : WF_vars(ClientSwitchDrain(c))

\* ---- sessions: two connections, each with or without a remote address,
\* come and go in any order while their speech threads deliver transcripts
\* and their agents call tools; the camera delivers no frame.
InitSessions ==
    InitWith({{NoFace}}, {Gallery({1})}, {TicksPerSecond}, {DefaultFps})

NextSessions ==
    \/ \E c \in Clients, has_address \in BOOLEAN : Connect(c, has_address, TRUE)
    \/ \E c \in Clients : Disconnect(c)
    \/ \E c \in Clients, blank \in BOOLEAN : TurnBegin(c, blank)
    \/ \E c \in Clients, outcome \in AgentOutcomes : AgentReturn(c, outcome)
    \/ \E c \in Clients : NotificationDrain(c)

SpecSessions == InitSessions /\ [][NextSessions]_vars

\* ---- the frame ingest and the worker on a socket that also delivers
\* timeouts, broken headers and short payloads; the camera sees no face.
InitIngest == InitWith({{NoFace}}, {Gallery({1})}, {TicksPerSecond \div 10}, {DefaultFps})

NextIngest ==
    \/ \E rd \in ReadInputs : IngestReadError(rd)
    \/ \E rd \in ReadInputs, face \in scene : IngestReadFrame(rd, face)
    \/ IngestEnqueue
    \/ WorkerGet
    \/ \E rows \in RowOrders(faces) : WorkerProcessFrame(rows)

SpecIngest == InitIngest /\ [][NextIngest]_vars

\* ---- the recognition service alone: process_frame called on a stream of
\* frames at a fixed pace (30, 20, 15, 10, 5 or 1 frames per second), the
\* camera showing two stored persons, or a face that is not in the store.
FeedGaps == {2, 3, 4, 6, 12, 60}

\* process_frame called directly on a frame showing `face`.
DetectorFeed(face, rows) ==
    /\ face \in scene
    /\ rows \in RowOrders(faces)
    /\ frames_processed < history_size + ExtraFrames
    /\ face = camera_face \/ camera_changes < FeedChanges
    /\ camera_face' = face
    /\ camera_changes' = IF face = camera_face THEN camera_changes ELSE camera_changes + 1
    /\ ApplyProcessFrame(ProcessFrameResult(face, clock + frame_gap, rows))
    /\ UNCHANGED <<ingest_pc, ingest_frame, consecutive_errors, queue_dropped,
                   frames_read, scene>>
    /\ UNCHANGED <<face_recognition_queue, workerVars, clientVars, conversationVars,
                   poolVars, controlVars,
                   fanoutVars, sent>>

InitDetector ==
    InitWith({{NoFace, 1, 2}, {3}}, {Gallery({1, 2})}, FeedGaps, {DefaultFps})

NextDetector == \E face \in scene, rows \in RowOrders(faces) : DetectorFeed(face, rows)

SpecDetector == InitDetector /\ [][NextDetector]_vars

\* ---- the recognition service while the store comes and goes: frames at 5
\* per second showing nobody, a stored person or a stranger.
StoreFails ==
    /\ store_up
    /\ store_up' = FALSE
    /\ UNCHANGED faces
    /\ UNCHANGED <<ingestVars, face_recognition_queue, workerVars, detectorVars,
                   galleryVars, clientVars, conversationVars, poolVars, controlVars,
                   fanoutVars,
                   historyVars>>

StoreRecovers ==
    /\ ~store_up
    /\ store_up' = TRUE
    /\ UNCHANGED faces
    /\ UNCHANGED <<ingestVars, face_recognition_queue, workerVars, detectorVars,
                   galleryVars, clientVars, conversationVars, poolVars, controlVars,
                   fanoutVars,
                   historyVars>>

InitOutage ==
    InitWith({{NoFace, 1, 3}}, {Gallery({1, 2})}, {TicksPerSecond \div 5}, {DefaultFps})

NextOutage ==
    \/ \E face \in scene, rows \in RowOrders(faces) : DetectorFeed(face, rows)
    \/ StoreFails
    \/ StoreRecovers

SpecOutage == InitOutage /\ [][NextOutage]_vars

\* ---- the recognition service on a stream whose pace drops: the frames come
\* at 10 per second, and the camera may slow down to 5 per second and to 1
\* per second at any frame.
SlowDown(gap) ==
    /\ gap \in FeedGaps
    /\ gap > frame_gap
    /\ frame_gap' = gap
    /\ UNCHANGED <<frame_history, current_person_id, frame_timestamps, current_fps,
                   history_size, person_threshold, no_person_threshold, clock,
                   frames_processed>>
    /\ UNCHANGED <<ingestVars, face_recognition_queue, workerVars, galleryVars,
                   storeVars, clientVars, conversationVars, poolVars, controlVars,
                   fanoutVars, historyVars>>

InitPace ==
    InitWith({{NoFace, 1}}, {Gallery({1})}, {TicksPerSecond \div 10}, {DefaultFps})

NextPace ==
    \/ \E face \in scene, rows \in RowOrders(faces) : DetectorFeed(face, rows)
    \/ \E gap \in FeedGaps : SlowDown(gap)

SpecPace == InitPace /\ [][NextPace]_vars

\* ---- gallery lookup: the recognition service fed with frames of nobody
\* and of two persons, over a gallery that tells them apart and over one in
\* which both ids are stored with the same embedding.
GalleryOfTwins ==
    [p \in {1, 2} |-> [embedding |-> Embedding(1), count |-> 1, recap |-> NullRecap]]

InitMatch ==
    InitWith({{NoFace, 1, 2}}, {Gallery({1, 2}), GalleryOfTwins},
             {TicksPerSecond \div 5}, {DefaultFps})

NextMatch == \E face \in scene, rows \in RowOrders(faces) : DetectorFeed(face, rows)

SpecMatch == InitMatch /\ [][NextMatch]_vars

\* ---- a later session: the service starts on a store whose rows were folded
\* in an earlier session, with a count of EarlierCount observations each, and
\* is fed frames at 5 per second showing nobody or one of two stored persons.
GalleryOfEarlierSession ==
    [p \in {1, 2} |->
        [embedding |-> [sum |-> <<EarlierCount * FaceVector(p)[1],
                                  EarlierCount * FaceVector(p)[2]>>,
                        n |-> EarlierCount],
         count |-> EarlierCount, recap |-> NullRecap]]

InitReturn ==
    InitWith({{NoFace, 1, 2}}, {GalleryOfEarlierSession}, {TicksPerSecond \div 5},
             {DefaultFps})

NextReturn == \E face \in scene, rows \in RowOrders(faces) : DetectorFeed(face, rows)

SpecReturn == InitReturn /\ [][NextReturn]_vars

\* ---- the threshold functions on every FPS estimate of the grid
\* 1, 1 + 1/FpsGrid, ..., 30, with the window size _update_fps derives from it.
FpsRates == {[n |-> k, d |-> FpsGrid] : k \in FpsGrid..(30 * FpsGrid)}

\* _get_person_threshold and _get_no_person_threshold evaluated on the state.
EvaluateThresholds ==
    /\ person_threshold = 0
    /\ person_threshold' = GetPersonThreshold(current_fps, history_size)
    /\ no_person_threshold' = GetNoPersonThreshold(current_fps, history_size)
    /\ UNCHANGED <<frame_history, current_person_id, frame_timestamps, current_fps,
                   history_size, clock, frame_gap, frames_processed>>
    /\ UNCHANGED <<ingestVars, face_recognition_queue, workerVars, galleryVars,
                   storeVars, clientVars, conversationVars, poolVars, controlVars,
                   fanoutVars, historyVars>>

InitThresholds ==
    InitWith({{NoFace}}, {Gallery({1})}, {TicksPerSecond \div 10}, FpsRates)

NextThresholds == EvaluateThresholds

SpecThresholds == InitThresholds /\ [][NextThresholds]_vars

\* ---- control messages: one connection, with or without a database, sends
\* change_name messages before and after the detector commits to a person.
InitControl ==
    InitWith({{1}}, {Gallery({1})}, {TicksPerSecond}, {DefaultFps})

NextControl ==
    \/ \E face \in scene, rows \in RowOrders(faces) :
          CameraShows(face, TalkFrames, TalkChanges) /\ WorkerFrame(face, rows)
    \/ WorkerRecap(TRUE)
    \/ WorkerDispatch
    \/ WorkerNotify
    \/ \E c \in Talkers, has_database \in BOOLEAN : Connect(c, TRUE, has_database)
    \/ \E c \in Talkers, person_name \in PersonNames, new_name \in NewNames :
          ChangeName(c, person_name, new_name)

SpecControl == InitControl /\ [][NextControl]_vars

\* ---- the connection pool of one database manager: six threads run
\* operations on it (one more than the pool has connections), while its
\* connection is opened and closed.
PoolOwner == 1

InitPool ==
    InitWith({{1}}, {Gallery({1})}, {TicksPerSecond}, {DefaultFps})

NextPool ==
    \/ Connect(PoolOwner, TRUE, TRUE)
    \/ Disconnect(PoolOwner)
    \/ \E t \in DbThreads : OpBegin(PoolOwner, t)
    \/ \E t \in DbThreads, ok \in BOOLEAN : OpBody(PoolOwner, t, ok)
    \/ \E t \in DbThreads : OpFinally(PoolOwner, t)

SpecPool == InitPool /\ [][NextPool]_vars

\* ===================================================================== CLAIMS
\* The step in which the ingest thread does its put_nowait.
EnqueueStep == ingest_pc = "queue" /\ ingest_pc' # "queue"
QueueIsFull == Len(face_recognition_queue) = QueueMaxSize

C2_BoundedNonBlocking ==
    /\ Len(face_recognition_queue) <= QueueMaxSize
    /\ (ingest_pc = "queue" => ENABLED IngestEnqueue)

\* The ingest thread stands before its put while the queue is full and the
\* worker is busy with a frame.
C2_Witness ==
    /\ ingest_pc = "queue"
    /\ QueueIsFull
    /\ worker_pc = "process"

\* C3 (as the code behaves): the ingest loop has terminated exactly when the
\* count of consecutive errors has reached ten, so nine consecutive errors are
\* tolerated and the tenth ends the loop; every pass that reads a whole
\* payload resets the count to zero.
C3_StopsOnTenth ==
    /\ [](ingest_pc = "stopped" <=> consecutive_errors = max_consecutive_errors)
    /\ [](consecutive_errors <= max_consecutive_errors)
    /\ [][frames_read' # frames_read => consecutive_errors' = 0]_vars

\* C3 (as stated): ten consecutive errors are tolerated, the loop terminates
\* only on the eleventh.
C3_StopsOnEleventh ==
    consecutive_errors <= max_consecutive_errors => ingest_pc # "stopped"

\* The loop has stopped on ten errors in a row after a payload had reset the count.
C3_Witness ==
    /\ ingest_pc = "stopped"
    /\ consecutive_errors = max_consecutive_errors
    /\ frames_read > 0

\* ------------------------------------------------------------ switch detector
\* A step in which process_frame ran, the person it observed, and whether it
\* reported a switch.
FeedStep == frames_processed' = frames_processed + 1
LastOf(h) == h[Len(h)]
Switched == switch_seq' = switch_seq + 1

\* Length of the run of x at the end of the history.
RECURSIVE TrailingRun(_, _)
TrailingRun(h, x) ==
    IF h = <<>> \/ LastOf(h) # x THEN 0
    ELSE 1 + TrailingRun(SubSeq(h, 1, Len(h) - 1), x)

\* A window of n observations: x, followed by j trailing None.
WindowOf(x, j, n) == [i \in 1..n |-> IF i <= n - j THEN x ELSE NoPerson]

\* C4: at a fixed frame rate, once the same person p has been observed
\* T_to_person times in a row the detector's current person is p, whatever the
\* state the run started from; a switch reported on an observation of p goes
\* to p and away from another current person; and no switch is reported while
\* the current person keeps being observed.
C4_CommitsWithinThreshold ==
    /\ [](frame_history # <<>> /\ LastOf(frame_history) # NoPerson
            /\ TrailingRun(frame_history, LastOf(frame_history)) >= person_threshold
          => current_person_id = LastOf(frame_history))
    /\ [][(FeedStep /\ Switched /\ LastOf(frame_history') # NoPerson)
            => (current_person_id # LastOf(frame_history')
                /\ current_person_id' = LastOf(frame_history'))]_vars
    /\ [][(FeedStep /\ current_person_id # NoPerson
                     /\ LastOf(frame_history') = current_person_id)
            => (~Switched /\ current_person_id' = current_person_id)]_vars

\* Person 1 was current, person 2 was then observed beyond the threshold: one
\* switch to 1, one switch to 2, and 2 is current.
C4_Witness ==
    /\ current_person_id = 2
    /\ switch_seq = 2
    /\ TrailingRun(frame_history, 2) > person_threshold
    /\ event_log[Len(event_log)] = [type |-> "commit", person |-> 2, seq |-> 2]

\* C5: with X current and the window filled with X, one or two frames without
\* a face followed by X again report no switch and leave X current, at each
\* of the frame rates.
C5_BlipTolerated ==
    [][(/\ FeedStep
        /\ current_person_id # NoPerson
        /\ Len(frame_history) = history_size
        /\ \E j \in 0..2 :
              /\ frame_history = WindowOf(current_person_id, j, history_size)
              /\ \/ LastOf(frame_history') = NoPerson /\ j < 2
                 \/ LastOf(frame_history') = current_person_id)
       => (~Switched /\ current_person_id' = current_person_id)]_vars

\* A full window of person 1, two frames without a face, person 1 again: still
\* the one switch that made 1 current.
C5_Witness ==
    /\ current_person_id = 1
    /\ switch_seq = 1
    /\ camera_changes = 2
    /\ frames_processed = history_size + 3
    /\ Len(frame_history) = history_size
    /\ SubSeq(frame_history, history_size - 2, history_size) = <<NoPerson, NoPerson, 1>>
    /\ \A i \in 1..(history_size - 3) : frame_history[i] = 1

\* C6: at 10 frames per second, with X current and the window filled with X,
\* consecutive frames without a face report a switch on the seventh of them
\* and on no earlier one, that switch goes to None, and further frames without
\* a face report nothing.
C6_AbsenceOnSeventh ==
    /\ [][(/\ FeedStep
            /\ frame_gap * 10 = TicksPerSecond
            /\ current_person_id # NoPerson
            /\ Len(frame_history) = history_size
            /\ LastOf(frame_history') = NoPerson
            /\ \E j \in 0..(history_size - 1) :
                  frame_history = WindowOf(current_person_id, j, history_size))
           => /\ Switched <=> frame_history = WindowOf(current_person_id, 6, history_size)
              /\ Switched => current_person_id' = NoPerson]_vars
    /\ [][(FeedStep /\ current_person_id = NoPerson /\ LastOf(frame_history') = NoPerson)
           => ~Switched]_vars

\* Ten frames of person 1, then eight without a face, at 10 frames per second:
\* the switch to 1 and the one switch to None.
C6_Witness ==
    /\ frame_gap * 10 = TicksPerSecond
    /\ frames_processed = 18
    /\ camera_changes = 1
    /\ frame_history = WindowOf(1, 8, 10)
    /\ current_person_id = NoPerson
    /\ switch_seq = 2

\* C7: at every frame rate from 1 to 30 the absence threshold exceeds the
\* person threshold by at least one.
C7_AbsenceAbovePerson ==
    person_threshold > 0 => no_person_threshold - person_threshold >= 1

\* The thresholds were evaluated at a rate where they differ by exactly one.
C7_Witness ==
    /\ person_threshold > 0
    /\ no_person_threshold = person_threshold + 1

\* ------------------------------------------------------------------- gallery
\* Persons of the store with a generated identifier.
UnnamedRows == {p \in DOMAIN faces : p > UnnamedBase}

\* C8 (as stated): when the same unseen face is fed repeatedly with the store
\* reachable, the no-match path runs once, exactly one gallery entry
\* (Unnamed id, e, 1) is persisted and is what the next lookup finds, every
\* frame gets that same identifier, and at 10 frames per second the detector
\* commits to it on the fifth observation.
C8_OneEntryOneId ==
    (scene = {3} /\ frames_processed > 0) =>
        /\ uuid_next = 1
        /\ UnnamedRows = {UnnamedId(1)}
        /\ faces[UnnamedId(1)].embedding = Embedding(3)
        /\ faces[UnnamedId(1)].count = 1
        /\ \A i \in 1..Len(frame_history) : frame_history[i] = UnnamedId(1)
        /\ (frame_gap * 10 = TicksPerSecond /\ frames_processed >= 5)
              => current_person_id = UnnamedId(1)

\* Five frames of the unseen face at 10 frames per second: nothing persisted,
\* five different identifiers, no person committed.
C8_Witness ==
    /\ scene = {3}
    /\ store_up
    /\ frame_gap * 10 = TicksPerSecond
    /\ frames_processed = 5
    /\ UnnamedRows = {}
    /\ uuid_next = 5
    /\ frame_history = <<UnnamedId(1), UnnamedId(2), UnnamedId(3), UnnamedId(4), UnnamedId(5)>>
    /\ current_person_id = NoPerson

\* ------------------------------------------------------------------- fan-out
\* Frames of switch event k among the frames sent to a client.
RECURSIVE FramesOf(_, _)
FramesOf(k, frames) ==
    IF frames = <<>> THEN 0
    ELSE (IF Head(frames).seq = k THEN 1 ELSE 0) + FramesOf(k, Tail(frames))

\* C9 (as stated): for a switch event a connected client is sent exactly one
\* switch_interaction_person frame, so never a second one, whether the switch
\* goes to a person or to None.
C9_OneFramePerSwitch ==
    \A c \in Clients : \A k \in 1..switch_seq : FramesOf(k, sent[c]) <= 1

\* A client connected throughout has been sent two frames for the switch to
\* person 1: one from its own queue, one from the server-wide queue.
C9_Witness ==
    \E c \in Clients :
        /\ client_state[c] = "open"
        /\ FramesOf(1, sent[c]) = 2
        /\ \A i \in 1..Len(sent[c]) : sent[c][i].person_id = 1

\* C10: every write of a person's averaged embedding is made once for a
\* switch event, for the person who was current since the previous event,
\* directly before the detector commits to the switch, and before any
\* notification of that switch is put into a client's queue or the server's.
C10_FoldOnceBeforeNotify ==
    \A i \in 1..Len(event_log) :
        event_log[i].type = "fold" =>
            /\ i < Len(event_log)
            /\ event_log[i + 1].type = "commit"
            /\ event_log[i + 1].seq = event_log[i].seq
            /\ \E j \in 1..(i - 1) :
                  /\ event_log[j].type = "commit"
                  /\ event_log[j].seq = event_log[i].seq - 1
                  /\ event_log[j].person = event_log[i].person
            /\ \A j \in 1..Len(event_log) :
                  /\ (event_log[j].type = "fold" /\ event_log[j].seq = event_log[i].seq)
                        => j = i
                  /\ (event_log[j].type = "put" /\ event_log[j].seq = event_log[i].seq)
                        => j > i

\* Person 1 was committed and notified, then left: one write for 1, the commit
\* to None, and the notifications of that switch after it.
C10_Witness ==
    /\ Len(event_log) >= 5
    /\ \E i \in 1..Len(event_log) :
          /\ event_log[i] = [type |-> "fold", person |-> 1, seq |-> 2]
          /\ \E j \in 1..(i - 1) : event_log[j] = [type |-> "put", person |-> 1, seq |-> 1]
          /\ \E j \in (i + 1)..Len(event_log) :
                event_log[j] = [type |-> "put", person |-> NoPerson, seq |-> 2]
    /\ faces[1].count > 1

\* The step in which the worker's update loop runs _handle_person_switch on
\* the orchestrator of connection c.
HandlerStep(c) ==
    /\ worker_pc = "dispatch"
    /\ worker_targets # <<>>
    /\ Head(worker_targets).client = c
    /\ worker_targets' = Tail(worker_targets)

\* C11 (as the spec states it): every switch a connection's handler takes,
\* a switch to None included, replaces the connection's conversation_id by a
\* value it did not have before, and two connections never hold the same
\* conversation_id.
C11_FreshIdOnEverySwitch ==
    /\ [][\A c \in Clients :
            HandlerStep(c) => conv_conversation_id'[c] # conv_conversation_id[c]]_vars
    /\ [](\A a, b \in Clients :
            (a # b /\ client_state[a] # "new" /\ client_state[b] # "new")
               => conv_conversation_id[a] # conv_conversation_id[b])

\* Two connections have both taken a switch to a person and then a switch to
\* None, each keeping across the second the id it drew at the first.
C11_Witness ==
    \A c \in Clients :
        /\ orch_handled[c] = 2
        /\ orch_previous_person_id[c] = NoPerson
        /\ conv_conversation_id[c] > Cardinality(Clients)
        /\ worker_pc = "get"

\* C12 (as the spec states it): right after a connection's handler has taken
\* a switch, the connection's messages list and its tool_calls list are both
\* empty, whatever they held before.
C12_HistoryEmptyAfterSwitch ==
    [][\A c \in Clients :
          HandlerStep(c) => (conv_messages'[c] = <<>> /\ conv_tool_calls'[c] = <<>>)]_vars

\* A connection has taken its second switch and still holds the record of a
\* tool call made in a turn that began before its first one.
C12_Witness ==
    \E c \in Clients :
        /\ orch_handled[c] = 2
        /\ worker_pc = "dispatch"
        /\ worker_targets = <<>>
        /\ conv_messages[c] = <<>>
        /\ conv_tool_calls[c] # <<>>
        /\ conv_tool_calls[c][1].epoch = 0

\* C13 (as the spec states it): the history of a connection holds no Message
\* and no tool-call record of a turn that began before the last switch the
\* connection's handler has taken.
C13_NoRecordOfEarlierTurn ==
    \A c \in Clients :
        /\ \A i \in 1..Len(conv_messages[c]) : conv_messages[c][i].epoch = orch_handled[c]
        /\ \A i \in 1..Len(conv_tool_calls[c]) : conv_tool_calls[c][i].epoch = orch_handled[c]

\* The agent of a turn that began before any switch has answered after the
\* connection took its first switch: the reply is the only message of the
\* history, which the switch had emptied.
C13_Witness ==
    \E c \in Clients :
        /\ orch_handled[c] = 1
        /\ turn_pc[c] = "idle"
        /\ turn[c].outcome = "reply"
        /\ conv_messages[c] = <<[role |-> "assistant", turn |-> turn[c].no, epoch |-> 0,
                                 person_id |-> NoPerson]>>

\* The messages of connection c tagged with the person its handler leaves.
TaggedWithPrevious(c) ==
    SelectSeq(conv_messages[c], LAMBDA msg : msg.person_id = orch_previous_person_id[c])
SummaryStarted == Len(summary_tasks') = Len(summary_tasks) + 1

\* C14 (as the spec states it): when a connection's handler takes a switch, a
\* summary thread is started exactly when the person it leaves is not None and
\* the history holds a message tagged with that person.
C14_StartsOnTaggedMessages ==
    [][\A c \in Clients : HandlerStep(c) =>
          (SummaryStarted <=> (/\ orch_previous_person_id[c] # NoPerson
                               /\ TaggedWithPrevious(c) # <<>>))]_vars

\* C14 (as the code behaves): when a connection's handler takes a switch, a
\* summary thread is started exactly when the person it leaves is not None,
\* the orchestrator has a database manager and the history holds a message
\* tagged with that person; the thread is given exactly those messages as they
\* were before the history was cleared, and the handler's step ends with the
\* thread still running; otherwise the list of summary threads is unchanged.
C14_StartsWithDatabaseOnTaggedMessages ==
    [][\A c \in Clients : HandlerStep(c) =>
          /\ SummaryStarted <=> (/\ orch_previous_person_id[c] # NoPerson
                                 /\ orch_database[c]
                                 /\ TaggedWithPrevious(c) # <<>>)
          /\ SummaryStarted =>
                LET task == summary_tasks'[Len(summary_tasks')]
                IN /\ task.client = c
                   /\ task.person_id = orch_previous_person_id[c]
                   /\ task.messages = TaggedWithPrevious(c)
                   /\ ~task.done
                   /\ conv_messages'[c] = <<>>
                   /\ SubSeq(summary_tasks', 1, Len(summary_tasks)) = summary_tasks
          /\ ~SummaryStarted => summary_tasks' = summary_tasks]_vars

\* The handler has just taken a switch away from a person who had said
\* something and been answered: the summary thread it started holds the user
\* message alone and is still running, and the update loop has moved on.
C14_Witness ==
    /\ worker_pc = "dispatch"
    /\ worker_targets = <<>>
    /\ summary_tasks # <<>>
    /\ LET task == summary_tasks[Len(summary_tasks)]
       IN /\ ~task.done
          /\ task.seq = worker_switch.seq
          /\ task.person_id = worker_switch.from
          /\ Len(task.messages) = 1
          /\ task.messages[1].role = "user"
          /\ turn[task.client].outcome = "reply"
          /\ turn[task.client].epoch = task.seq - 1
          /\ conv_messages[task.client] = <<>>

\* Some summary thread is still running.
SummaryRunning == \E i \in 1..Len(summary_tasks) : ~summary_tasks[i].done
\* The notification of switch k has been put on the server-wide queue.
Notified(k) == \E j \in 1..Len(person_switch_queue) : person_switch_queue[j].seq = k
\* C15: whenever the detector has committed a switch while a summary thread is
\* running, the worker goes on to run the handlers of that switch and to put
\* its notification on the queue, whether or not the summary ever ends.
C15_SwitchNotWaitingOnSummary ==
    \A k \in 1..HangFrames :
        [](((switch_seq = k /\ worker_pc = "recap" /\ SummaryRunning)
             \/ (switch_seq = k /\ worker_pc = "dispatch" /\ SummaryRunning))
           => <>(Notified(k) /\ worker_pc = "get"))

\* The summary thread started at the second switch is still running when the
\* third switch has been handled by the connection and put on the queue.
C15_Witness ==
    /\ switch_seq = 3
    /\ worker_pc = "get"
    /\ Notified(3)
    /\ \E c \in Clients : orch_handled[c] = 3 /\ conv_conversation_id[c] # NoConversation
    /\ \E i \in 1..Len(summary_tasks) : ~summary_tasks[i].done /\ summary_tasks[i].seq = 2

\* The step in which the agent of connection a returns from a turn in which it
\* called the notification tool.
NotifyStep(a) ==
    /\ turn_pc[a] = "agent"
    /\ turn_pc'[a] = "idle"
    /\ turn'[a].outcome = "notify"

\* C16 (as the spec states it): a notification tool call made by the agent of
\* connection a puts exactly one notification, carrying that call's fields,
\* into the notification queue of a and nothing into any other connection's.
C16_NotificationToOwnMailbox ==
    [][\A a \in Clients : NotifyStep(a) =>
          /\ notification_queue'[a] =
                Append(notification_queue[a], [turn |-> turn[a].no, client |-> a])
          /\ \A b \in Clients \ {a} : notification_queue'[b] = notification_queue[b]]_vars

\* Both connections are open, and a notification of the one that connected
\* first sits in the queue of the other; its own queue and socket have none.
C16_Witness ==
    \E a, b \in Clients :
        /\ a # b
        /\ client_state[a] = "open"
        /\ client_state[b] = "open"
        /\ turn[a].outcome = "notify"
        /\ notification_queue[a] = <<>>
        /\ notifications_sent[a] = <<>>
        /\ notification_queue[b] = <<[turn |-> turn[a].no, client |-> a]>>

\* A step of the speech thread of connection a: a transcript is routed, or
\* the agent returns and its tool calls and reply are recorded.
TurnStep(a) == turn_pc'[a] # turn_pc[a]

\* C17: a step of connection a's speech thread leaves the messages, the
\* tool_calls, the conversation_id and the current_person_id of every other
\* connection as they were.
C17_OtherStateUnchanged ==
    [][\A a \in Clients : TurnStep(a) =>
          \A b \in Clients \ {a} :
              /\ conv_messages'[b] = conv_messages[b]
              /\ conv_tool_calls'[b] = conv_tool_calls[b]
              /\ conv_conversation_id'[b] = conv_conversation_id[b]
              /\ conv_current_person_id'[b] = conv_current_person_id[b]]_vars

\* Two connections are open at once; the second has routed a transcript and
\* recorded a tool call while the first holds only its own user message.
C17_Witness ==
    /\ client_state[1] = "open"
    /\ client_state[2] = "open"
    /\ Len(conv_messages[1]) = 1
    /\ conv_messages[1][1].turn = turn[1].no
    /\ conv_tool_calls[1] = <<>>
    /\ turn_pc[2] = "idle"
    /\ Len(conv_messages[2]) = 1
    /\ conv_messages[2][1].turn = turn[2].no
    /\ Len(conv_tool_calls[2]) = 1
    /\ conv_tool_calls[2][1].turn = turn[2].no
    /\ conv_conversation_id[1] # conv_conversation_id[2]

\* The server-wide task holds switch k and connection b is among those it
\* has still to send it to.
BroadcastOwedTo(b, k) ==
    /\ fanout_pc = "send"
    /\ fanout_item.seq = k
    /\ \E j \in 1..Len(fanout_targets) : fanout_targets[j].client = b

\* C18 (as the spec states it): a connection the server-wide task has still to
\* send a switch to is eventually sent that switch, unless it closes or its own
\* peer stops reading - whatever becomes of the sends to other connections.
C18_DeliveryNotCoupled ==
    \A b \in Clients : \A k \in 1..MaxFrames :
        [](BroadcastOwedTo(b, k)
             => <>(\/ FramesOf(k, sent[b]) >= 1
                   \/ client_state[b] # "open"
                   \/ socket_stalled[b]))

\* The server-wide task is sending a switch to None: the connection first in
\* line has stopped reading, the one behind it is open and reading and has no
\* frame of that switch.
C18_Witness ==
    \E a, b \in Clients :
        /\ a # b
        /\ fanout_pc = "send"
        /\ fanout_item.person_id = NoPerson
        /\ fanout_item.seq = 2
        /\ Head(fanout_targets).client = a
        /\ client_state[a] = "open"
        /\ socket_stalled[a]
        /\ BroadcastOwedTo(b, 2)
        /\ client_state[b] = "open"
        /\ ~socket_stalled[b]
        /\ FramesOf(2, sent[b]) = 0
        /\ client_mailbox[b] = <<>>

\* The step in which a transcript of connection c is routed to the agent, and
\* the step in which its agent returns.
RouteStep(c) == turn_pc[c] = "idle" /\ turn_pc'[c] = "agent"
ReturnStep(c) == turn_pc[c] = "agent" /\ turn_pc'[c] = "idle"
UserMessage(c) ==
    [role |-> "user", turn |-> turn'[c].no, epoch |-> orch_handled[c],
     person_id |-> conv_current_person_id[c]]
AssistantMessage(c) ==
    [role |-> "assistant", turn |-> turn[c].no, epoch |-> turn[c].epoch,
     person_id |-> NoPerson]

\* C19: routing a non-blank final transcript appends exactly one user message,
\* tagged with the connection's current_person_id; when the agent then returns,
\* exactly one assistant message is appended if it returns reply text, and the
\* messages are left as they are if it returns the sentinel, which it does
\* whenever a tool was called in the turn.
C19_UserThenAssistant ==
    [][\A c \in Clients :
          /\ RouteStep(c) => conv_messages'[c] = Append(conv_messages[c], UserMessage(c))
          /\ ReturnStep(c) =>
               conv_messages'[c] =
                   IF turn'[c].outcome = "reply"
                   THEN Append(conv_messages[c], AssistantMessage(c))
                   ELSE conv_messages[c]]_vars

\* With person 1 in view a connection has had a turn answered with text and a
\* second turn in which a tool was called: the history holds the user message
\* and the reply of the first and only the user message of the second.
C19_Witness ==
    \E c \in Clients :
        /\ turn_pc[c] = "idle"
        /\ turn[c].outcome \in {"tool", "notify"}
        /\ Len(conv_tool_calls[c]) = 1
        /\ Len(conv_messages[c]) = 3
        /\ conv_messages[c][1].role = "user"
        /\ conv_messages[c][1].person_id = 1
        /\ conv_messages[c][2].role = "assistant"
        /\ conv_messages[c][2].turn = conv_messages[c][1].turn
        /\ conv_messages[c][3].role = "user"
        /\ conv_messages[c][3].turn = turn[c].no
        /\ conv_messages[c][3].person_id = 1

\* C20: when agent.invoke raises during a turn, process_utterance returns the
\* sentinel and the transcript handler returns to idle: the history, with the
\* user message of the turn, is left as it was, no assistant message and no
\* tool call is recorded.
C20_FailedTurnYieldsSentinel ==
    [][\A c \in Clients :
          (turn_pc[c] = "agent" /\ turn'[c].outcome = "error" /\ turn'[c] # turn[c]) =>
              /\ ProcessUtterance("error") = NoFurtherResponse
              /\ turn_pc'[c] = "idle"
              /\ conv_messages'[c] = conv_messages[c]
              /\ conv_tool_calls'[c] = conv_tool_calls[c]
              /\ notification_queue' = notification_queue]_vars

\* A connection's agent has failed in a turn: the handler is idle again and
\* the last message of the history is the user message of that turn.
C20_Witness ==
    \E c \in Clients :
        /\ turn_pc[c] = "idle"
        /\ turn[c].outcome = "error"
        /\ conv_messages[c] # <<>>
        /\ LastOf(conv_messages[c]) =
              [role |-> "user", turn |-> turn[c].no, epoch |-> turn[c].epoch,
               person_id |-> turn[c].person_id]
        /\ turn[c].person_id = 1
        /\ conv_tool_calls[c] = <<>>


\* ---- C21
\* The summary thread i whose LLM call failed.
LlmFailed(i) == summary_tasks[i].pc # "llm" /\ ~summary_tasks[i].llm_ok

\* C21 (as stated): when the summarizer's LLM call fails during a background
\* summary, no Summary row is appended for the departing person and that
\* person's Recap is left unchanged: no step of a summary thread whose LLM call
\* failed changes the summaries table or the faces table.
C21_NoSummaryOnLlmFailure ==
    [][\A i \in 1..Len(summary_tasks) :
          LlmFailed(i) /\ SummaryStep(i) => summaries' = summaries /\ faces' = faces]_vars

\* The failure case has run to its end: a summary thread whose LLM call failed
\* has finished, the summaries table holds its row with the fallback text and
\* the recap of the departing person is that text.
C21_Witness ==
    \E i \in 1..Len(summary_tasks) :
        /\ LlmFailed(i)
        /\ summary_tasks[i].done
        /\ \E k \in 1..Len(summaries) :
              /\ summaries[k].person_id = summary_tasks[i].person_id
              /\ summaries[k].conversation_id = summary_tasks[i].conversation_id
              /\ summaries[k].text = ErrorSummary
        /\ faces[summary_tasks[i].person_id].recap = ErrorSummary


\* ---- C22
\* Client c stands in the connection registry.
Registered(c) == \E i \in 1..Len(connections) : connections[i].client = c

\* C22 (as stated): when a client's connection closes it is removed from the
\* connection registry and its drain tasks are cancelled; after the removal no
\* later switch is dispatched to its orchestrator and nothing more is sent on
\* its socket. A closed client is not registered, and no step hands a switch
\* to the orchestrator of a closed client, puts one into its mailbox or sends
\* a frame to it.
C22_NothingAfterRemoval ==
    /\ [](\A c \in Clients : client_state[c] = "closed" => ~Registered(c))
    /\ [][\A c \in Clients : client_state[c] = "closed" =>
              /\ orch_handled'[c] = orch_handled[c]
              /\ conv_current_person_id'[c] = conv_current_person_id[c]
              /\ client_mailbox'[c] = client_mailbox[c]
              /\ sent'[c] = sent[c]]_vars

\* The worker stands before the handler call for a connection of its snapshot
\* that has been closed and removed from the registry in the meantime.
C22_Witness ==
    /\ worker_pc = "dispatch"
    /\ worker_targets # <<>>
    /\ client_state[Head(worker_targets).client] = "closed"
    /\ ~Registered(Head(worker_targets).client)


\* ---- C23
\* The summaries table holds the row of summary thread i.
RowOf(i) ==
    \E k \in 1..Len(summaries) :
        /\ summaries[k].client = summary_tasks[i].client
        /\ summaries[k].person_id = summary_tasks[i].person_id
        /\ summaries[k].conversation_id = summary_tasks[i].conversation_id

\* C23 (as stated): a background summary task started before its client
\* disconnects still runs to completion after the disconnect, appending its
\* Summary row and updating the Recap, whatever the interleaving with the
\* cleanup: a summary thread of a closed client that has ended has left its
\* row in the summaries table and a recap for the departing person.
C23_SummarySurvivesDisconnect ==
    \A i \in 1..Len(summary_tasks) :
        summary_tasks[i].done /\ client_state[summary_tasks[i].client] = "closed" =>
            /\ RowOf(i)
            /\ faces[summary_tasks[i].person_id].recap # NullRecap

\* A summary thread took its connection for the INSERT, the client then
\* disconnected and the pool was closed under it, and the thread has ended
\* without a row.
C23_Witness ==
    \E i \in 1..Len(summary_tasks) :
        /\ summary_tasks[i].done
        /\ client_state[summary_tasks[i].client] = "closed"
        /\ summary_tasks[i].gen < db_pool[summary_tasks[i].client].gen
        /\ ~RowOf(i)


\* ---- C24
\* The threads inside an operation with a connection of the present pool of c.
Holding(c) ==
    {t \in DbThreads : /\ db_ops[t].pc # "idle"
                       /\ db_pool[c].open
                       /\ db_ops[t].gen = db_pool[c].gen}

\* C24: every DatabaseManager operation returns the pooled connection it took
\* on every exit path, success or exception: the number of connections checked
\* out of the pool is the number of operations in progress on it, so it is
\* zero whenever no operation is in progress, and it never exceeds 5.
C24_ConnectionsReturned ==
    /\ db_pool[PoolOwner].used = Cardinality(Holding(PoolOwner))
    /\ db_pool[PoolOwner].used <= PoolMaxConn
    /\ (\A t \in DbThreads : db_ops[t].pc = "idle") => db_pool[PoolOwner].used = 0

\* Five operations hold the five connections of the pool, one of them has
\* failed and stands before its finally block, and the sixth thread is out.
C24_Witness ==
    /\ db_pool[PoolOwner].used = PoolMaxConn
    /\ \E t \in Holding(PoolOwner) : db_ops[t].pc = "finally" /\ db_ops[t].failed
    /\ \E t \in DbThreads : db_ops[t].pc = "idle"


\* ---- C25
\* The worker's recap step for a switch to a person who is in the store and
\* has at least one stored summary.
RecapStepForKnown ==
    /\ worker_pc = "recap"
    /\ worker_pc' = "dispatch"
    /\ worker_switch.person_id \in DOMAIN faces
    /\ SummariesOf(summaries, worker_switch.person_id) # <<>>

\* C25 (as stated): on a switch to a person who exists in the store and has at
\* least one stored Summary, the switch notification carries a non-null recap
\* when the LLM answers within 30 seconds, and a null recap on timeout or
\* failure.
C25_RecapFromSummaries ==
    [][RecapStepForKnown =>
          /\ worker_switch'.llm_in_time => worker_switch'.recap # NullRecap
          /\ ~worker_switch'.llm_in_time => worker_switch'.recap = NullRecap]_vars

\* The notification of a switch to a stored person with a stored summary has
\* been put on the server-wide queue with a null recap although the LLM was
\* ready to answer in time.
C25_Witness ==
    /\ worker_pc = "get"
    /\ worker_switch.person_id \in DOMAIN faces
    /\ worker_switch.llm_in_time
    /\ \E k \in 1..Len(summaries) : summaries[k].person_id = worker_switch.person_id
    /\ \E i \in 1..Len(summary_tasks) :
          /\ summary_tasks[i].person_id = worker_switch.person_id
          /\ summary_tasks[i].done
          /\ summary_tasks[i].seq < worker_switch.seq
    /\ \E n \in 1..Len(person_switch_queue) :
          /\ person_switch_queue[n].seq = worker_switch.seq
          /\ person_switch_queue[n].person_id = worker_switch.person_id
          /\ person_switch_queue[n].recap = NullRecap


\* ---- C26
\* process_frame switched away from a person with an in-memory average while
\* the store was down: the write of the final fold failed.
FoldFailed ==
    /\ FeedStep
    /\ Switched
    /\ current_person_id \in DOMAIN embedding_averages
    /\ ~store_up

\* recognize_person made a new person whose row did not reach the store.
CreationFailed ==
    /\ FeedStep
    /\ uuid_next' = uuid_next + 1
    /\ UnnamedId(uuid_next') \notin DOMAIN faces'

\* The first half of C26: a failed final fold does not stop the frame (the
\* switch is committed) and leaves the average of the person in memory.
C26_FoldFailureTolerated ==
    [][FoldFailed =>
          /\ current_person_id' # current_person_id
          /\ current_person_id \in DOMAIN embedding_averages'
          /\ embedding_averages'[current_person_id] =
                embedding_averages[current_person_id]]_vars

\* C26 (as stated): if the store write fails during the final fold or during
\* new-person creation, the frame is still processed to completion (the switch
\* is committed, or the new id is returned) and the in-memory running average
\* of the affected person exists afterwards with its value intact.
C26_WriteFailureTolerated ==
    /\ C26_FoldFailureTolerated
    /\ [][CreationFailed =>
             /\ LastOf(frame_history') = UnnamedId(uuid_next')
             /\ UnnamedId(uuid_next') \in DOMAIN embedding_averages'
             /\ embedding_averages'[UnnamedId(uuid_next')] =
                   [sum |-> FaceVector(camera_face'), n |-> 1, count |-> 1]]_vars

\* The store is down, the frame of a stranger has been processed and got a new
\* id, and neither the store nor the in-memory averages hold that person.
C26_Witness ==
    /\ ~store_up
    /\ uuid_next > 0
    /\ frame_history # <<>>
    /\ LastOf(frame_history) = UnnamedId(uuid_next)
    /\ UnnamedId(uuid_next) \notin DOMAIN faces
    /\ UnnamedId(uuid_next) \notin DOMAIN embedding_averages


\* ---- C27
\* The ids of the rows of a loaded database whose similarity to e is the
\* highest of all rows and at least 0.2.
TopMatches(e, rows) ==
    {rows[i].person_id : i \in
        {i \in 1..Len(rows) :
            /\ AtLeastMatchThreshold(Similarity(e, rows[i].embedding))
            /\ \A j \in 1..Len(rows) :
                  ~ScoreGreater(Similarity(e, rows[j].embedding),
                                Similarity(e, rows[i].embedding))}}

\* The smallest id of a set of ids.
SmallestId(ids) == CHOOSE p \in ids : \A q \in ids : p <= q

\* A frame with a face has been recognised against the database now cached.
LookupStep ==
    /\ FeedStep
    /\ camera_face' # NoFace
    /\ face_database_cache' # <<>>

\* The first half of C27: the lookup returns an entry of highest cosine
\* similarity, provided that similarity is at least 0.2.
C27_BestMatchReturned ==
    [][LookupStep =>
          LET top == TopMatches(Embedding(camera_face'), face_database_cache'[1])
          IN top # {} => LastOf(frame_history') \in top]_vars

\* C27 (as stated): gallery lookup returns the entry with the highest cosine
\* similarity provided that similarity is at least 0.2, and of several entries
\* that tie for the highest similarity the one with the smallest PersonId,
\* whatever the order in which the entries were loaded.
C27_TieBrokenBySmallestId ==
    [][LookupStep =>
          LET top == TopMatches(Embedding(camera_face'), face_database_cache'[1])
          IN top # {} => LastOf(frame_history') = SmallestId(top)]_vars

\* Both ids are stored with the embedding of the face in view, the database
\* was loaded with id 2 first, and the lookup gave id 2.
C27_Witness ==
    /\ camera_face = 1
    /\ face_database_cache # <<>>
    /\ TopMatches(Embedding(1), face_database_cache[1]) = {1, 2}
    /\ face_database_cache[1][1].person_id = 2
    /\ frame_history # <<>>
    /\ LastOf(frame_history) = 2


\* ---- C28
\* The change_name messages client c has had answered.
ChangeNames(c) == {control_log[c][k] : k \in 1..Len(control_log[c])}

\* A change_name step on the connection of client c.
ChangeNameStep(c) == Len(control_log'[c]) = Len(control_log[c]) + 1

\* C28 (as stated): a change_name message with a non-empty new_name renames
\* the client's currently bound person when one is bound, otherwise the person
\* whose stored name equals person_name, and is answered with
\* change_name_response success; a change_name without new_name is answered
\* with an error and changes nothing in the store.
C28_ChangeNameAnswered ==
    /\ [](\A c \in Clients : \A m \in ChangeNames(c) :
            /\ (/\ m.new_name # NoName
                /\ m.database
                /\ m.person_id # NoPerson \/ m.person_name # NoName)
                    => m.answer = "change_name_response"
            /\ m.new_name = NoName => m.answer = "error")
    /\ [][\A c \in Clients :
            ChangeNameStep(c) /\ LastOf(control_log'[c]).new_name = NoName
                => faces' = faces]_vars

\* The second half of C28: a change_name without new_name is answered with an
\* error and changes nothing in the store.
C28_MissingNewNameRejected ==
    /\ [](\A c \in Clients : \A m \in ChangeNames(c) :
            m.new_name = NoName => m.answer = "error")
    /\ [][\A c \in Clients :
            ChangeNameStep(c) /\ LastOf(control_log'[c]).new_name = NoName
                => faces' = faces]_vars

\* A client with a database, bound to a person, asked for a new name and was
\* answered with an error.
C28_Witness ==
    \E c \in Clients : \E m \in ChangeNames(c) :
        /\ m.database
        /\ m.person_id # NoPerson
        /\ m.new_name # NoName
        /\ m.answer = "error"


C30_WindowWithinSize == Len(frame_history) <= history_size

\* The window size has just decreased by more than one and the window, cut by
\* one entry only, is longer than it.
C30_Witness ==
    /\ frames_processed > 0
    /\ history_size < Len(frame_history) - 1
    /\ history_size = HistorySizeFor(current_fps)

\* ------------------------------------------------------- thresholds and window
\* The window size clamp(floor(f), 5, 30) of an estimate f.
WindowSizeOf(fps) ==
    LET floor == fps.n \div fps.d
    IN IF floor < 5 THEN 5 ELSE IF floor > 30 THEN 30 ELSE floor

C32_CommitChangesCurrentOnly ==
    [][(FeedStep /\ Switched)
       => /\ frame_history' # <<>>
          /\ LET observed == LastOf(frame_history')
             IN
             /\ current_person_id' # current_person_id
             /\ current_person_id' = observed
             /\ frame_history'
                  = UpdateFrameHistory(frame_history, observed, history_size')
             /\ frame_timestamps' = UpdateTimestamps(frame_timestamps, clock')
             /\ IF observed = NoPerson
                THEN embedding_averages' = embedding_averages
                ELSE embedding_averages'
                       \in {embedding_averages,
                            FoldEmbedding(embedding_averages, observed,
                                          Embedding(camera_face'))}]_vars

\* The detector went from person 1 to person 2: the window still holds
\* observations of person 1 and the running average of person 1 is kept.
C32_Witness ==
    /\ switch_seq = 2
    /\ current_person_id = 2
    /\ \E i \in 1..Len(frame_history) : frame_history[i] = 1
    /\ 1 \in DOMAIN embedding_averages
    /\ embedding_averages[1].count >= 3
    /\ Len(frame_timestamps) >= 2

\* ------------------------------------------------------------ rows of the store
\* C33: in every reachable state of the store each faces row has a count of
\* at least 1 and an embedding that is not NULL and holds at least one
\* observation, whichever write of the core touched it last: the insert of a
\* new person, the final fold, or the recap update of a summary thread.
C33_RowsKeepCountAndEmbedding ==
    \A p \in DOMAIN faces :
        /\ faces[p].count >= 1
        /\ faces[p].embedding # NullEmbedding
        /\ faces[p].embedding.n >= 1

\* The row of person 1 was written by the final fold (its count is that of
\* the session's average, above 1) and then by the recap update of the summary
\* thread started when person 1 left.
C33_Witness ==
    /\ 1 \in DOMAIN faces
    /\ faces[1].count > 1
    /\ faces[1].recap # NullRecap
    /\ \E i \in 1..Len(event_log) :
          event_log[i].type = "fold" /\ event_log[i].person = 1

\* ------------------------------------------------------------ a single stranger
\* C34 (as stated): once the detector has committed person p and has observed
\* nobody but p since (the stream so far is a run of other frames followed by
\* a run of p, in which the commit fell), one observation of a different
\* person q reports no switch, whatever the window held at the commit and at
\* each of the frame rates.
C34_SingleObservationTolerated ==
    [][(/\ FeedStep
        /\ current_person_id # NoPerson
        /\ camera_face = current_person_id
        /\ camera_changes <= 1
        /\ frame_history' # <<>>
        /\ LastOf(frame_history') # NoPerson
        /\ LastOf(frame_history') # current_person_id)
       => (~Switched /\ current_person_id' = current_person_id)]_vars

\* At 10 frames per second: four frames of person 2, five of person 1 (the
\* detector commits person 1 on the fifth), then one frame of person 2, on
\* which the detector switches to person 2.
C34_Witness ==
    /\ frame_gap * 10 = TicksPerSecond
    /\ frames_processed = 10
    /\ frame_history = <<2, 2, 2, 2, 1, 1, 1, 1, 1, 2>>
    /\ switch_seq = 2
    /\ current_person_id = 2
    /\ \E i \in 1..Len(event_log) :
          event_log[i].type = "commit" /\ event_log[i].person = 1

\* ------------------------------------------------------ tags of the messages
\* A message was appended to the history of connection c in this step.
MessageAppended(c) == Len(conv_messages'[c]) = Len(conv_messages[c]) + 1

\* C35 (as stated): every message appended while a person p is the
\* connection's current person, a user message or an assistant message,
\* carries person_id = p; and the snapshot handed to the summary thread when p
\* leaves holds, for each turn it holds, the assistant reply recorded for that
\* turn.
C35_MessagesTaggedWithCurrent ==
    /\ [][\A c \in Clients :
            (MessageAppended(c) /\ conv_current_person_id[c] # NoPerson)
            => LastOf(conv_messages'[c]).person_id = conv_current_person_id[c]]_vars
    /\ [][\A c \in Clients :
            (HandlerStep(c) /\ SummaryStarted)
            => LET snapshot == summary_tasks'[Len(summary_tasks')].messages
               IN \A i \in 1..Len(conv_messages[c]) :
                     (/\ conv_messages[c][i].role = "assistant"
                      /\ \E j \in 1..Len(snapshot) :
                            snapshot[j].turn = conv_messages[c][i].turn)
                     => \E j \in 1..Len(snapshot) :
                            snapshot[j] = conv_messages[c][i]]_vars

\* With person 1 current, connection 1 had a turn answered with text; person 1
\* then left and the handler started a summary thread and cleared the history:
\* the snapshot of the thread holds the user message of that turn alone.
C35_Witness ==
    /\ turn_pc[1] = "idle"
    /\ turn[1].outcome = "reply"
    /\ turn[1].person_id = 1
    /\ conv_messages[1] = <<>>
    /\ Len(summary_tasks) = 1
    /\ summary_tasks[1].person_id = 1
    /\ Len(summary_tasks[1].messages) = 1
    /\ summary_tasks[1].messages[1].role = "user"
    /\ summary_tasks[1].messages[1].turn = turn[1].no
    /\ turns_started = 1

\* ------------------------------------------------- the person a connection sees
\* C36 (as stated): whenever the worker is not handling a switch (it waits
\* for the next frame), every open connection's conversation state and its
\* orchestrator's recorded previous person both hold the detector's committed
\* current person, a connection opened while a person is committed included.
C36_ConnectionsFollowDetector ==
    worker_pc = "get"
    => \A c \in Clients :
          client_state[c] = "open"
          => /\ conv_current_person_id[c] = current_person_id
             /\ orch_previous_person_id[c] = current_person_id

\* The detector committed person 1 and the worker finished handling that
\* switch before connection 1 was opened: the connection's orchestrator took
\* no switch and holds no person while person 1 is committed.
C36_Witness ==
    /\ worker_pc = "get"
    /\ switch_seq = 1
    /\ current_person_id = 1
    /\ client_state[1] = "open"
    /\ Registered(1)
    /\ orch_handled[1] = 0
    /\ conv_current_person_id[1] = NoPerson
    /\ orch_previous_person_id[1] = NoPerson

\* ------------------------------------------------- recap and frame recognition
\* C37 (as stated): while the recap of a switch is being generated, the
\* worker still takes the frames waiting in face_recognition_queue: with a
\* recap pending and a frame queued, the worker's get is possible.
C37_FramesTakenDuringRecap ==
    (worker_pc = "recap" /\ face_recognition_queue # <<>>) => ENABLED WorkerGet

\* The detector committed person 1, the worker stands before the recap of
\* that switch, and the queue is full of frames read since.
C37_Witness ==
    /\ worker_pc = "recap"
    /\ worker_switch.person_id = 1
    /\ worker_switch.seq = switch_seq
    /\ current_person_id = 1
    /\ Len(face_recognition_queue) = QueueMaxSize
    /\ \A i \in 1..Len(face_recognition_queue) :
          face_recognition_queue[i].seq > worker_frame.seq

\* ---------------------------------------------------- the agent's message list
\* C38 (as stated): the message list passed to the agent for a turn holds the
\* user utterance of that turn exactly once.
C38_UtteranceOnce ==
    \A c \in Clients :
        turn[c].no > 0
        => CountOf([role |-> "user", turn |-> turn[c].no], turn[c].messages) = 1

\* The first turn of connection 1: the list passed to the agent holds the
\* utterance twice, once from the history and once appended.
C38_Witness ==
    /\ turn[1].no = 1
    /\ turn_pc[1] = "agent"
    /\ turn[1].messages = <<[role |-> "user", turn |-> 1], [role |-> "user", turn |-> 1]>>

\* ------------------------------------------------------- the count of a row
\* A step in which _save_averaged_embedding wrote the row of person p.
FoldWrites(p) ==
    /\ Len(event_log') > Len(event_log)
    /\ event_log'[Len(event_log) + 1].type = "fold"
    /\ event_log'[Len(event_log) + 1].person = p

\* C39 (as stated): a final-fold write never lowers the count stored for a
\* person: after the write the row's count is at least what it was before,
\* also when the row was last written in an earlier session.
C39_CountNeverLowered ==
    [][\A p \in DOMAIN faces :
          FoldWrites(p) => faces'[p].count >= faces[p].count]_vars

\* Person 1, stored with EarlierCount observations by an earlier session, was
\* seen in this session and left: the final fold wrote this session's smaller
\* count over the stored one.
C39_Witness ==
    /\ \E i \in 1..Len(event_log) :
          event_log[i].type = "fold" /\ event_log[i].person = 1
    /\ faces[1].count < EarlierCount
    /\ faces[1].count >= 1
    /\ faces[2].count = EarlierCount
    /\ embedding_averages[1].count = faces[1].count

\* ------------------------------------------------------ the connection registry
\* The registry holds an entry for connection c under c's own connection id.
OwnEntry(c) ==
    \E i \in 1..Len(connections) :
        connections[i] = [id |-> client_conn_id[c], client |-> c]

\* C40 (as stated): every open connection is in the registry under its own
\* entry, and registering or cleaning up one connection leaves the entry of
\* every other open connection in place, connections registered as "unknown"
\* included.
C40_OpenClientsRegistered ==
    /\ [](\A c \in Clients : client_state[c] = "open" => OwnEntry(c))
    /\ [][\A a \in Clients :
            client_state'[a] # client_state[a]
            => \A b \in Clients \ {a} :
                  (client_state[b] = "open" /\ OwnEntry(b)) => OwnEntry(b)']_vars

\* Both connections came without a remote address and are open: the registry
\* holds the single entry "unknown", which belongs to the one that came second.
C40_Witness ==
    /\ client_state[1] = "open"
    /\ client_state[2] = "open"
    /\ client_conn_id[1] = UnknownConnId
    /\ client_conn_id[2] = UnknownConnId
    /\ Len(connections) = 1
    /\ ~OwnEntry(1)
    /\ OwnEntry(2)

====
